---- MODULE Spec2Model ----
(***************************************************************************)
(* A model of tcpdiag: the schema descriptor of the csv crate, the record  *)
(* model and attribute codec of data.rs, the three sinks and readers, and  *)
(* the paced query loop of read_netlink.                                   *)
(*                                                                         *)
(* Text is modelled as a sequence of strings whose concatenation is the    *)
(* text; bytes are modelled as sequences of numbers 0..255.                *)
(***************************************************************************)
EXTENDS Integers, Sequences, FiniteSets, TLC

VARIABLES
    pc,         \* position of the process that the specification runs
    desc,       \* csv::Desc under inspection (schema layer)
    cwriter,    \* csv::Writer after the const header block / cprint
    header,     \* result of csv::post_process on the header buffer
    sink,       \* the sink (Box<dyn Collector>): its fields and what it wrote
    log,        \* the events delivered to the sink so far
    direct,     \* a sink of the target format that receives the same events
    rd,         \* the reader of --convert: its input and its local variables
    down,       \* the sink downstream of the reader
    dlog,       \* the events the reader delivered downstream so far
    nl,         \* read_netlink: its arguments and local variables
    arg,        \* the input of a function that is applied on its own
    ret         \* what the function returned for arg

vars == <<pc, desc, cwriter, header, sink, log, direct, rd, down, dlog, nl, arg, ret>>
fnVars == <<arg, ret>>
descVars == <<desc, cwriter, header, fnVars>>
sinkVars == <<sink, log>>
convVars == <<direct, rd, down, dlog>>

(***************************************************************************)
(* Generic helpers on sequences.                                           *)
(***************************************************************************)
RECURSIVE SumLen(_)
SumLen(ps) == IF ps = <<>> THEN 0 ELSE Len(Head(ps)) + SumLen(Tail(ps))

RECURSIVE Concat(_)
Concat(ps) == IF ps = <<>> THEN "" ELSE Head(ps) \o Concat(Tail(ps))

\* the concatenation of a sequence of sequences, by halving
RECURSIVE Flatten(_)
Flatten(ss) ==
    IF Len(ss) = 0 THEN <<>>
    ELSE IF Len(ss) = 1 THEN ss[1]
    ELSE LET h == Len(ss) \div 2
         IN  Flatten(SubSeq(ss, 1, h)) \o Flatten(SubSeq(ss, h + 1, Len(ss)))

RECURSIVE Reverse(_)
Reverse(s) == IF s = <<>> THEN <<>> ELSE Append(Reverse(Tail(s)), Head(s))

RECURSIVE SeqsUpTo(_, _)
SeqsUpTo(S, n) ==
    IF n = 0 THEN {<<>>}
    ELSE LET shorter == SeqsUpTo(S, n - 1)
         IN  shorter \cup {Append(s, x) : s \in {t \in shorter : Len(t) = n - 1}, x \in S}

(***************************************************************************)
(* csv::Desc (src/csv/src/lib.rs:3-9).                                     *)
(***************************************************************************)
Atom == [k |-> "Atom"]
DOption(d) == [k |-> "Option", d |-> d]
DArray(n, d) == [k |-> "Array", n |-> n, d |-> d]
DStruct(m) == [k |-> "Struct", m |-> m]

\* usize::ilog10 for n >= 1
RECURSIVE ilog10(_)
ilog10(n) == IF n < 10 THEN 0 ELSE 1 + ilog10(n \div 10)

\* Desc::len: the number of leaf columns
RECURSIVE Desc_len(_)
RECURSIVE Desc_len_struct(_, _)
Desc_len_struct(m, i) ==
    IF i > Len(m) THEN 0 ELSE Desc_len(m[i][2]) + Desc_len_struct(m, i + 1)
\* a slip in Desc::len: an array counted as one element
Desc_len_one_element(d) ==
    CASE d.k = "Option" -> Desc_len(d.d)
      [] d.k = "Array"  -> Desc_len(d.d)
      [] d.k = "Struct" -> Desc_len_struct(d.m, 1)
      [] d.k = "Atom"   -> 1
Desc_len(d) ==
    CASE d.k = "Option" -> Desc_len(d.d)
      [] d.k = "Array"  -> d.n * Desc_len(d.d)
      [] d.k = "Struct" -> Desc_len_struct(d.m, 1)
      [] d.k = "Atom"   -> 1

\* Desc::desc_size: the size of the header buffer
RECURSIVE desc_size(_)
RECURSIVE desc_size_struct(_, _)
desc_size_struct(m, i) ==
    IF i > Len(m) THEN 0
    ELSE (Len(m[i][1]) + 1) * Desc_len(m[i][2]) + desc_size(m[i][2])
         + desc_size_struct(m, i + 1)
desc_size(d) ==
    CASE d.k = "Option" -> desc_size(d.d)
      [] d.k = "Array"  -> d.n * (2 + desc_size(d.d) + ilog10(d.n + 1))
      [] d.k = "Struct" -> desc_size_struct(d.m, 1)
      [] d.k = "Atom"   -> 1

(***************************************************************************)
(* csv::Writer (src/csv/src/lib.rs:213-258): a fixed buffer of cap bytes   *)
(* and a position.  An index past the buffer panics: ok becomes FALSE and  *)
(* nothing more is written.                                                *)
(***************************************************************************)
Writer_new(cap) == [pieces |-> <<>>, pos |-> 0, cap |-> cap, ok |-> TRUE]

Writer_extend(w, string) ==
    IF ~w.ok THEN w
    ELSE IF w.pos + Len(string) > w.cap THEN [w EXCEPT !.ok = FALSE]
    ELSE [w EXCEPT !.pieces = Append(@, string), !.pos = @ + Len(string)]

DigitChar == <<"0", "1", "2", "3", "4", "5", "6", "7", "8", "9">>

\* the digits of number, least significant first (at least one digit)
RECURSIVE DigitsBackwards(_)
DigitsBackwards(number) ==
    IF number < 10 THEN <<number>>
    ELSE <<number % 10>> \o DigitsBackwards(number \div 10)

RECURSIVE DigitString(_)
DigitString(ds) ==
    IF ds = <<>> THEN "" ELSE DigitChar[Head(ds) + 1] \o DigitString(Tail(ds))

\* Writer::num: digits written backwards, then swapped to forward order
Writer_num(w, number) ==
    Writer_extend(w, DigitString(Reverse(DigitsBackwards(number))))

\* Writer::get_str
Writer_get_str(w) == Concat(w.pieces)

(***************************************************************************)
(* csv::cprint (src/csv/src/lib.rs:275-311).  N is the size of the         *)
(* temporary prefix buffers.  The result is the writer; a panic in a       *)
(* prefix buffer or in the output buffer leaves ok = FALSE.                *)
(***************************************************************************)
RECURSIVE cprint(_, _, _, _)
RECURSIVE cprint_array(_, _, _, _, _)
RECURSIVE cprint_struct(_, _, _, _, _)

Fail(write) == [write EXCEPT !.ok = FALSE]

cprint_array(N, write, prefix, d, i) ==
    IF i >= d.n \/ ~write.ok THEN write
    ELSE LET b1 == Writer_extend(Writer_new(N), prefix)
             b2 == IF prefix # "" THEN Writer_extend(b1, ".") ELSE b1
             bwriter == Writer_num(b2, i)
         IN  IF ~bwriter.ok THEN Fail(write)
             ELSE cprint_array(N, cprint(N, write, Writer_get_str(bwriter), d.d),
                               prefix, d, i + 1)

cprint_struct(N, write, prefix, m, i) ==
    IF i > Len(m) \/ ~write.ok THEN write
    ELSE LET b1 == Writer_extend(Writer_new(N), prefix)
             b2 == IF prefix # "" /\ m[i][1] # "" THEN Writer_extend(b1, ".") ELSE b1
             bwriter == Writer_extend(b2, m[i][1])
         IN  IF ~bwriter.ok THEN Fail(write)
             ELSE cprint_struct(N, cprint(N, write, Writer_get_str(bwriter), m[i][2]),
                                prefix, m, i + 1)

cprint_atom(write, prefix) == Writer_extend(Writer_extend(write, prefix), " ")

cprint(N, write, prefix, d) ==
    CASE d.k = "Option" -> cprint(N, write, prefix, d.d)
      [] d.k = "Array"  -> cprint_array(N, write, prefix, d, 0)
      [] d.k = "Struct" -> cprint_struct(N, write, prefix, d.m, 1)
      [] d.k = "Atom"   -> cprint_atom(write, prefix)

(***************************************************************************)
(* csv::post_process (src/csv/src/lib.rs:313-321) on the buffer that the   *)
(* writer filled: the cap - pos trailing bytes are still zero and are      *)
(* stripped; a buffer without any non-zero byte indexes string[-1] and     *)
(* panics.  Every written piece sequence ends in " ", which is non-zero.   *)
(***************************************************************************)
post_process(w) ==
    IF w.pos = 0 THEN [ok |-> FALSE, pieces |-> <<>>]
    ELSE [ok |-> TRUE, pieces |-> w.pieces]

\* the const block of CSV_HEADER (src/tcpdiag/src/csv.rs:35-45) for a descriptor
header_block(d) ==
    LET SIZE == desc_size(d)
    IN  cprint(SIZE, Writer_new(SIZE), "", d)

(***************************************************************************)
(* Bytes.  A byte string is a sequence of numbers 0..255.  The host is     *)
(* little-endian (native-endian fields are written least significant byte  *)
(* first).  Numbers of the model stay below 2^31.                          *)
(***************************************************************************)
RECURSIVE LE(_, _)
LE(w, v) == IF w = 0 THEN <<>> ELSE <<v % 256>> \o LE(w - 1, v \div 256)

RECURSIVE FromLE(_)
FromLE(b) == IF b = <<>> THEN 0 ELSE Head(b) + 256 * FromLE(Tail(b))

ZeroBytes(n) == [i \in 1..n |-> 0]
Take(b, n) == SubSeq(b, 1, n)
Drop(b, n) == SubSeq(b, n + 1, Len(b))

(***************************************************************************)
(* Wire integer wrappers (src/tcpdiag/src/integer.rs) and Wscale           *)
(* (src/tcpdiag/src/data.rs:255-269).  A wrapper value is its stored       *)
(* representation: U16BE two bytes, U64NE eight bytes, NlU64 two 32-bit    *)
(* words, Wscale one byte.                                                 *)
(***************************************************************************)
U16BE_get(s) == s[1] * 256 + s[2]
\* new with u16::to_le_bytes
U16BE_new_le(val) == <<val % 256, val \div 256>>
U16BE_new(val) == <<val \div 256, val % 256>>

U64NE_get(s) == FromLE(s)
U64NE_new(val) == LE(8, val)

\* u64::from(lsb) | u64::from(msb) << 32
NlU64_get(s) == s[1] + s[2] * 65536 * 65536
\* [val as u32, (val >> 32) as u32]
NlU64_new(val) ==
    LET msb == (val \div 65536) \div 65536
    IN  <<val - msb * 65536 * 65536, msb>>

\* The same wrappers on the whole range of u64.  A u64 is here its four
\* 16-bit limbs, lowest first, a u32 its two; the operators are the ones the
\* code applies.
RECURSIVE bitor(_, _, _)
bitor(a, b, bits) ==
    IF bits = 0 THEN 0
    ELSE (IF a % 2 = 1 \/ b % 2 = 1 THEN 1 ELSE 0) + 2 * bitor(a \div 2, b \div 2, bits - 1)
u64_or(a, b) == [i \in 1..4 |-> bitor(a[i], b[i], 16)]
u64_shr32(val) == <<val[3], val[4], 0, 0>>
u64_shl32(val) == <<0, 0, val[1], val[2]>>
u64_as_u32(val) == <<val[1], val[2]>>
u64_from_u32(word) == <<word[1], word[2], 0, 0>>
\* on the little-endian targets of the model
u64_to_ne_bytes(val) == LE(2, val[1]) \o LE(2, val[2]) \o LE(2, val[3]) \o LE(2, val[4])
u64_from_ne_bytes(b) == [i \in 1..4 |-> b[2 * i - 1] + 256 * b[2 * i]]

NlU64_get_wide(s) == u64_or(u64_from_u32(s[1]), u64_shl32(u64_from_u32(s[2])))
NlU64_new_wide(val) == <<u64_as_u32(val), u64_as_u32(u64_shr32(val))>>
U64NE_get_wide(s) == u64_from_ne_bytes(s)
U64NE_new_wide(val) == u64_to_ne_bytes(val)

Wscale_get(v) == [snd |-> v % 16, rcv |-> v \div 16]
Wscale_new(val) == (val.snd % 16) + ((val.rcv * 16) % 256)

(***************************************************************************)
(* Record layouts (src/tcpdiag/src/data.rs, src/tcpdiag/src/csv.rs).  A    *)
(* field is <<name, type>> or <<name, type, attribute>>, the attribute     *)
(* being "Skip" for #[csv(type(csv::Skip))] with #[serde(skip)],           *)
(* "flatten" for #[csv(flatten())] and "pass" for #[pass(family)].  A      *)
(* struct value is a record over the field names.  The borrowed and the    *)
(* owned Extra record have the same fields and are the same values here.   *)
(***************************************************************************)
nlmsghdr_fields ==
    << <<"nlmsg_len", "u32">>, <<"nlmsg_type", "u16">>, <<"nlmsg_flags", "u16">>,
       <<"nlmsg_seq", "u32">>, <<"nlmsg_pid", "u32">> >>

InetDiagSockid_fields ==
    << <<"sport", "U16BE">>, <<"dport", "U16BE">>, <<"src", "IpAddrUnspec", "pass">>,
       <<"dst", "IpAddrUnspec", "pass">>, <<"ifindex", "u32">>, <<"cookie", "NlU64">> >>

InetDiagMsg_fields ==
    << <<"family", "u8">>, <<"state", "u8">>, <<"timer", "u8">>, <<"retrans", "u8">>,
       <<"id", "InetDiagSockid", "pass">>, <<"expires", "u32">>, <<"rqueue", "u32">>,
       <<"wqueue", "u32">>, <<"uid", "u32">>, <<"inode", "u32">> >>

TcpInfo_fields ==
    << <<"state", "u8">>, <<"ca_state", "u8">>, <<"retransmits", "u8">>,
       <<"probes", "u8">>, <<"backoff", "u8">>, <<"options", "u8">>,
       <<"wscale", "Wscale">>, <<"flags", "u8">>, <<"rto", "u32">>, <<"ato", "u32">>,
       <<"snd_mss", "u32">>, <<"rcv_mss", "u32">>, <<"unacked", "u32">>,
       <<"sacked", "u32">>, <<"lost", "u32">>, <<"retrans", "u32">>,
       <<"fackets", "u32">>, <<"last_data_sent", "u32">>, <<"last_ack_sent", "u32">>,
       <<"last_data_recv", "u32">>, <<"last_ack_recv", "u32">>, <<"pmtu", "u32">>,
       <<"rcv_ssthresh", "u32">>, <<"rtt", "u32">>, <<"rttvar", "u32">>,
       <<"snd_ssthresh", "u32">>, <<"snd_cwnd", "u32">>, <<"advmss", "u32">>,
       <<"reordering", "u32">>, <<"rcv_rtt", "u32">>, <<"rcv_space", "u32">>,
       <<"total_retrans", "u32">>, <<"pacing_rate", "U64NE">>,
       <<"max_pacing_rate", "U64NE">>, <<"bytes_acked", "U64NE">>,
       <<"bytes_received", "U64NE">>, <<"segs_out", "u32">>, <<"segs_in", "u32">>,
       <<"notsent_bytes", "u32">>, <<"min_rtt", "u32">>, <<"data_segs_in", "u32">>,
       <<"data_segs_out", "u32">>, <<"delivery_rate", "U64NE">>,
       <<"busy_time", "U64NE">>, <<"rwnd_limited", "U64NE">>,
       <<"sndbuf_limited", "U64NE">>, <<"delivered", "u32">>,
       <<"delivered_ce", "u32">>, <<"bytes_sent", "U64NE">>,
       <<"bytes_retrans", "U64NE">>, <<"dsack_dups", "u32">>, <<"reord_seen", "u32">>,
       <<"rcv_ooopack", "u32">>, <<"snd_wnd", "u32">> >>

BbrInfo_fields ==
    << <<"bw", "NlU64">>, <<"min_rtt", "u32">>, <<"pacing_gain", "u32">>,
       <<"cwnd_gain", "u32">> >>

Bbr3Info_fields ==
    << <<"bw_hi", "NlU64">>, <<"bw_lo", "NlU64">>, <<"mode", "u8">>, <<"phase", "u8">>,
       <<"unused1", "u8", "Skip">>, <<"version", "u8">>, <<"inflight_lo", "u32">>,
       <<"inflight_hi", "u32">>, <<"extra_acked", "u32">> >>

WscaleExp_fields == << <<"snd", "u8">>, <<"rcv", "u8">> >>

InetDiagMsgExtra_fields ==
    << <<"base", "InetDiagMsg">>, <<"cong", "Option<String>">>,
       <<"tcp_info", "Option<TcpInfo>">>, <<"bbr", "Option<BbrInfo>">>,
       <<"bbr3", "Option<Bbr3Info>">> >>

CsvLine_fields ==
    << <<"time", "u64">>, <<"data", "Option<InetDiagMsgExtra>", "flatten">> >>

CsvLineOwned_fields ==
    << <<"time", "u64">>, <<"data", "Option<InetDiagMsgExtra>", "flatten">>,
       <<"duration", "Option<u64>">> >>

StructTypes ==
    {"nlmsghdr", "InetDiagSockid", "InetDiagMsg", "TcpInfo", "BbrInfo", "Bbr3Info",
     "WscaleExp", "InetDiagMsgExtra", "CsvLine", "CsvLineOwned"}

OptionTypes ==
    {"Option<String>", "Option<TcpInfo>", "Option<BbrInfo>", "Option<Bbr3Info>",
     "Option<InetDiagMsgExtra>", "Option<u64>"}

\* T of Option<T>
Inner(t) ==
    CASE t = "Option<String>"           -> "String"
      [] t = "Option<TcpInfo>"          -> "TcpInfo"
      [] t = "Option<BbrInfo>"          -> "BbrInfo"
      [] t = "Option<Bbr3Info>"         -> "Bbr3Info"
      [] t = "Option<InetDiagMsgExtra>" -> "InetDiagMsgExtra"
      [] t = "Option<u64>"              -> "u64"

Fields(t) ==
    CASE t = "nlmsghdr"       -> nlmsghdr_fields
      [] t = "InetDiagSockid" -> InetDiagSockid_fields
      [] t = "InetDiagMsg"    -> InetDiagMsg_fields
      [] t = "TcpInfo"        -> TcpInfo_fields
      [] t = "BbrInfo"        -> BbrInfo_fields
      [] t = "Bbr3Info"       -> Bbr3Info_fields
      [] t = "WscaleExp"      -> WscaleExp_fields
      [] t = "InetDiagMsgExtra" -> InetDiagMsgExtra_fields
      [] t = "CsvLine"        -> CsvLine_fields
      [] t = "CsvLineOwned"   -> CsvLineOwned_fields

\* the type whose CsvWrite/Csv impl the derive uses for a field, and the name
\* the derive puts in DESC
CsvTypeOf(f) == IF Len(f) = 3 /\ f[3] = "Skip" THEN "Skip" ELSE f[2]
CsvNameOf(f) == IF Len(f) = 3 /\ f[3] = "flatten" THEN "" ELSE f[1]

\* std::mem::size_of; a struct is the sum of its fields lo..hi, by halving
RECURSIVE size_of(_)
RECURSIVE size_of_fields(_, _, _)
size_of_fields(fs, lo, hi) ==
    IF lo > hi THEN 0
    ELSE IF lo = hi THEN size_of(fs[lo][2])
    ELSE size_of_fields(fs, lo, (lo + hi) \div 2)
             + size_of_fields(fs, (lo + hi) \div 2 + 1, hi)
size_of(t) ==
    CASE t = "u8"           -> 1
      [] t = "Wscale"       -> 1
      [] t = "U16BE"        -> 2
      [] t = "u16"          -> 2
      [] t = "u32"          -> 4
      [] t = "U64NE"        -> 8
      [] t = "NlU64"        -> 8
      [] t = "IpAddrUnspec" -> 16
      [] t \in StructTypes  -> size_of_fields(Fields(t), 1, Len(Fields(t)))

\* zerocopy IntoBytes::as_bytes: the value's bytes in field order (repr(C),
\* these structs have no padding)
RECURSIVE as_bytes(_, _)
as_bytes(t, v) ==
    CASE t \in {"u8", "Wscale"}                  -> <<v>>
      [] t = "u16"                               -> LE(2, v)
      [] t = "u32"                               -> LE(4, v)
      [] t \in {"U16BE", "U64NE", "IpAddrUnspec"} -> v
      [] t = "NlU64"                             -> LE(4, v[1]) \o LE(4, v[2])
      [] t \in StructTypes                       ->
            Flatten([i \in DOMAIN Fields(t) |->
                        as_bytes(Fields(t)[i][2], v[Fields(t)[i][1]])])

\* zerocopy FromBytes: the value held by the size_of(t) bytes of b after the
\* first off bytes; a struct takes its fields lo..hi one after the other
RECURSIVE from_bytes_at(_, _, _)
RECURSIVE from_bytes_fields(_, _, _, _, _)
from_bytes_fields(t, b, off, lo, hi) ==
    IF lo = hi
    THEN LET f == Fields(t)[lo]
         IN  [v |-> f[1] :> from_bytes_at(f[2], b, off), off |-> off + size_of(f[2])]
    ELSE LET mid == (lo + hi) \div 2
             left == from_bytes_fields(t, b, off, lo, mid)
             right == from_bytes_fields(t, b, left.off, mid + 1, hi)
         IN  [v |-> left.v @@ right.v, off |-> right.off]
from_bytes_at(t, b, off) ==
    CASE t \in {"u8", "Wscale"}                  -> b[off + 1]
      [] t = "u16"                               -> FromLE(SubSeq(b, off + 1, off + 2))
      [] t = "u32"                               -> FromLE(SubSeq(b, off + 1, off + 4))
      [] t \in {"U16BE", "U64NE", "IpAddrUnspec"} -> SubSeq(b, off + 1, off + size_of(t))
      [] t = "NlU64"                             ->
            <<FromLE(SubSeq(b, off + 1, off + 4)), FromLE(SubSeq(b, off + 5, off + 8))>>
      [] t \in StructTypes -> from_bytes_fields(t, b, off, 1, Len(Fields(t))).v
from_bytes(t, b) == from_bytes_at(t, b, 0)

\* zerocopy FromBytes::ref_from_prefix: the value at the front of the bytes and
\* the bytes that follow it; an error when the bytes are too few
ref_from_prefix(t, b) ==
    IF Len(b) < size_of(t) THEN [ok |-> FALSE]
    ELSE [ok |-> TRUE, v |-> from_bytes(t, b), tail |-> Drop(b, size_of(t))]

(***************************************************************************)
(* Netlink attributes and the Extra record (src/tcpdiag/src/data.rs).      *)
(* Option<T> is a sequence: <<>> is None and <<x>> is Some(x).             *)
(***************************************************************************)
INET_DIAG_INFO == 2
INET_DIAG_CONG == 4
INET_DIAG_BBRINFO == 16
U16_MAX == 65535

None == <<>>
Some(x) == <<x>>
is_some(o) == o # <<>>

\* struct nlattr as bytes: nla_len and nla_type, native-endian u16
nlattr_as_bytes(nla_len, nla_type) == LE(2, nla_len) \o LE(2, nla_type)

\* (len + 3) & !3
align4(len) == ((len + 3) \div 4) * 4

\* NlattrIter::next on the remaining bytes b: "none" at the end of the bytes,
\* "some" with the attribute and the bytes left after align4(nla_len), "panic"
\* when an unwrap or split_at fails.  With nla_len below 4 the subtraction
\* overflows: a build with overflow checks panics there, one without wraps
\* payload_len past any slice and ref_from_prefix_with_elems fails on the at
\* most four bytes of current; both builds panic.
NlattrIter_next_padded(b) ==
    IF b = <<>> THEN [kind |-> "none", item |-> <<>>, rest |-> b]
    ELSE IF Len(b) < 4 \/ FromLE(Take(b, 2)) < 4
            \/ align4(FromLE(Take(b, 2))) > Len(b)
         THEN [kind |-> "panic", item |-> <<>>, rest |-> b]
         ELSE [kind |-> "some",
               item |-> [nla_type |-> FromLE(SubSeq(b, 3, 4)),
                         data |-> SubSeq(b, 5, align4(FromLE(Take(b, 2))))],
               rest |-> Drop(b, align4(FromLE(Take(b, 2))))]
NlattrIter_next(b) ==
    IF b = <<>> THEN [kind |-> "none", item |-> <<>>, rest |-> b]
    ELSE IF Len(b) < 4 THEN [kind |-> "panic", item |-> <<>>, rest |-> b]
    ELSE LET len == FromLE(Take(b, 2))
         IN IF len < 4 THEN [kind |-> "panic", item |-> <<>>, rest |-> b]
            ELSE IF align4(len) > Len(b)
                 THEN [kind |-> "panic", item |-> <<>>, rest |-> b]
                 ELSE [kind |-> "some",
                       item |-> [nla_type |-> FromLE(SubSeq(b, 3, 4)),
                                 data |-> SubSeq(b, 5, len)],
                       rest |-> Drop(b, align4(len))]

\* NlattrIter: the attributes of a byte string in order, each with its type and
\* its payload of nla_len - 4 bytes.  ok = FALSE when next() panics: fewer than
\* four bytes left for a header, nla_len below the header size, or an aligned
\* length past the end of the bytes.
RECURSIVE NlattrIter(_)
NlattrIter(b) ==
    IF b = <<>> THEN [ok |-> TRUE, attrs |-> <<>>]
    ELSE IF Len(b) < 4 THEN [ok |-> FALSE, attrs |-> <<>>]
    ELSE LET len == FromLE(Take(b, 2))
             ty == FromLE(SubSeq(b, 3, 4))
         IN  IF len < 4 \/ align4(len) > Len(b) THEN [ok |-> FALSE, attrs |-> <<>>]
             ELSE LET rest == NlattrIter(Drop(b, align4(len)))
                  IN  [ok |-> rest.ok,
                       attrs |-> <<[nla_type |-> ty, data |-> SubSeq(b, 5, len)]>>
                                 \o rest.attrs]

\* std::str::from_utf8(..).is_ok()
RECURSIVE utf8_valid(_)
IsCont(b, i) == i <= Len(b) /\ b[i] >= 128 /\ b[i] <= 191
utf8_valid(b) ==
    IF b = <<>> THEN TRUE
    ELSE LET c == b[1]
         IN  IF c < 128 THEN utf8_valid(Drop(b, 1))
             ELSE IF c >= 194 /\ c <= 223
                  THEN IsCont(b, 2) /\ utf8_valid(Drop(b, 2))
             ELSE IF c >= 224 /\ c <= 239
                  THEN /\ IsCont(b, 2) /\ IsCont(b, 3)
                       /\ (c = 224 => b[2] >= 160)
                       /\ (c = 237 => b[2] <= 159)
                       /\ utf8_valid(Drop(b, 3))
             ELSE IF c >= 240 /\ c <= 244
                  THEN /\ IsCont(b, 2) /\ IsCont(b, 3) /\ IsCont(b, 4)
                       /\ (c = 240 => b[2] >= 144)
                       /\ (c = 244 => b[2] <= 143)
                       /\ utf8_valid(Drop(b, 4))
             ELSE FALSE

\* InetDiagMsgExtra::new
InetDiagMsgExtra_new(base) ==
    [base |-> base, cong |-> None, tcp_info |-> None, bbr |-> None, bbr3 |-> None]

\* one arm of the match in InetDiagMsgExtra::parse; ok = FALSE when it panics
parse_info(extras, r) ==
    IF r.ok THEN [ok |-> TRUE, v |-> [extras EXCEPT !.tcp_info = Some(r.v)]]
    ELSE [ok |-> FALSE, v |-> extras]
parse_bbr3_alone(extras, r, r3) ==
    [ok |-> TRUE, v |-> [extras EXCEPT !.bbr3 = IF r3.ok THEN Some(r3.v) ELSE None]]
parse_bbr3(extras, r, r3) ==
    [ok |-> TRUE,
     v |-> [extras EXCEPT !.bbr = Some(r.v),
                          !.bbr3 = IF r3.ok THEN Some(r3.v) ELSE None]]
parse_bbr(extras, r) ==
    IF r.ok THEN parse_bbr3(extras, r, ref_from_prefix("Bbr3Info", r.tail))
    ELSE [ok |-> TRUE, v |-> extras]
parse_attribute(extras, attribute) ==
    CASE attribute.nla_type = INET_DIAG_INFO ->
            parse_info(extras, ref_from_prefix("TcpInfo", attribute.data))
      [] attribute.nla_type = INET_DIAG_CONG ->
            LET d == attribute.data
            IN  IF utf8_valid(d) /\ d # <<>> /\ d[Len(d)] = 0
                THEN [ok |-> TRUE, v |-> [extras EXCEPT !.cong = Some(Take(d, Len(d) - 1))]]
                ELSE [ok |-> FALSE, v |-> extras]
      [] attribute.nla_type = INET_DIAG_BBRINFO ->
            parse_bbr(extras, ref_from_prefix("BbrInfo", attribute.data))
      [] OTHER -> [ok |-> TRUE, v |-> extras]

\* the for loop over the attributes: r is what the arm of the first made
RECURSIVE parse_attributes(_, _)
parse_rest(r, attrs) == IF r.ok THEN parse_attributes(r.v, Tail(attrs)) ELSE r
parse_attributes(extras, attrs) ==
    IF attrs = <<>> THEN [ok |-> TRUE, v |-> extras]
    ELSE parse_rest(parse_attribute(extras, Head(attrs)), attrs)

\* InetDiagMsgExtra::parse; ok = FALSE when it panics
parse_result(it, res) == IF it.ok /\ res.ok THEN [ok |-> TRUE, v |-> res.v] ELSE [ok |-> FALSE]
parse_iter(r, it) == parse_result(it, parse_attributes(InetDiagMsgExtra_new(r.v), it.attrs))
parse_msg(r) == IF ~r.ok THEN [ok |-> FALSE] ELSE parse_iter(r, NlattrIter(r.tail))
parse(data) == parse_msg(ref_from_prefix("InetDiagMsg", data))

\* InetDiagMsgExtraOwned::push_header: u16::try_from(4 + len).unwrap()
push_header_ok(len) == 4 + len <= U16_MAX
push_header(buf, ty, len) == buf \o nlattr_as_bytes(4 + len, ty)

\* no padding after the name
pad_to_4_nothing(buf) == buf
\* while buf.len() & 3 != 0 { buf.push(0) }
pad_to_4(buf) == buf \o ZeroBytes(align4(Len(buf)) - Len(buf))

\* InetDiagMsgExtraOwned::to_vec
to_vec_cong(buf, x) ==
    IF is_some(x.cong)
    THEN pad_to_4(push_header(buf, INET_DIAG_CONG, Len(x.cong[1]) + 1) \o x.cong[1] \o <<0>>)
    ELSE buf
to_vec_tcp_info_left_out(buf, x) == buf
to_vec_tcp_info(buf, x) ==
    IF is_some(x.tcp_info)
    THEN push_header(buf, INET_DIAG_INFO, size_of("TcpInfo")) \o as_bytes("TcpInfo", x.tcp_info[1])
    ELSE buf
\* to_vec that always writes a BBR3 tail, zeros when bbr3 is None
to_vec_bbr_zero_tail(buf, x) ==
    IF is_some(x.bbr)
    THEN push_header(buf, INET_DIAG_BBRINFO, size_of("BbrInfo") + size_of("Bbr3Info"))
             \o as_bytes("BbrInfo", x.bbr[1])
             \o (IF is_some(x.bbr3) THEN as_bytes("Bbr3Info", x.bbr3[1])
                 ELSE ZeroBytes(size_of("Bbr3Info")))
    ELSE buf
to_vec_bbr(buf, x) ==
    IF is_some(x.bbr)
    THEN LET part1 == as_bytes("BbrInfo", x.bbr[1])
             part2 == IF is_some(x.bbr3) THEN as_bytes("Bbr3Info", x.bbr3[1]) ELSE <<>>
         IN  push_header(buf, INET_DIAG_BBRINFO, Len(part1) + Len(part2)) \o part1 \o part2
    ELSE buf
to_vec(x) ==
    to_vec_bbr(to_vec_tcp_info(to_vec_cong(as_bytes("InetDiagMsg", x.base), x), x), x)
\* to_vec completes (no push_header panics)
to_vec_ok(x) == is_some(x.cong) => push_header_ok(Len(x.cong[1]) + 1)

(***************************************************************************)
(* Text.  Text output is a sequence of tokens: " " and "\n" are tokens of  *)
(* their own, every other token is a string free of both; a field of a    *)
(* row is the sequence of tokens between two " ".  Numbers are decimal     *)
(* text, one token per digit, IPv4 addresses numbers and "." tokens.       *)
(* Strings and IPv6 addresses are known to the model through the tables    *)
(* below, one token each.  MaxNumber bounds the sample values.             *)
(***************************************************************************)
MaxNumber == 300

\* itoa::Buffer::format, Display for the unsigned integers
itoa(n) ==
    LET ds == Reverse(DigitsBackwards(n)) IN [i \in DOMAIN ds |-> DigitChar[ds[i] + 1]] \o <<>>

\* the largest value of the type; u32 and u64 are cut at the largest integer
\* of the model
ParseMax(t) ==
    CASE t = "u8" -> 255 [] t = "u16" -> 65535 [] OTHER -> 32768 * 65535 + 32767
IsDigit(c) == \E d \in 1..10 : DigitChar[d] = c
DigitValue(c) == (CHOOSE d \in 1..10 : DigitChar[d] = c) - 1
\* str::parse::<uN>() on text without a sign: None for empty text
\* (IntErrorKind::Empty), for a token that is no digit (InvalidDigit) and
\* for a value above the type's largest (PosOverflow), Some(number) otherwise
RECURSIVE from_str_radix(_, _, _, _)
from_str_radix(s, i, acc, max) ==
    IF i > Len(s) THEN <<acc>>
    ELSE IF ~IsDigit(s[i]) THEN <<>>
    ELSE LET d == DigitValue(s[i])
         IN  IF acc > (max - d) \div 10 THEN <<>>
             ELSE from_str_radix(s, i + 1, acc * 10 + d, max)
str_parse(t, s) == IF s = <<>> THEN <<>> ELSE from_str_radix(s, 1, 0, ParseMax(t))
parse_ok(t, s) == str_parse(t, s) # <<>>
parse_int(t, s) == str_parse(t, s)[1]

\* the congestion control names of the model, as UTF-8 bytes and as text
StrTable ==
    << <<(<<99, 117, 98, 105, 99>>), "cubic">>,
       <<(<<98, 98, 114>>), "bbr">>,
       <<(<<114, 101, 110, 111>>), "reno">> >>
StrText(b) == <<StrTable[CHOOSE i \in DOMAIN StrTable : StrTable[i][1] = b][2]>>
StrBytes(s) == StrTable[CHOOSE i \in DOMAIN StrTable : <<StrTable[i][2]>> = s][1]
IsStrText(s) == \E i \in DOMAIN StrTable : <<StrTable[i][2]>> = s

\* Display for std::net::Ipv4Addr
Ipv4Text(o) ==
    itoa(o[1]) \o <<".">> \o itoa(o[2]) \o <<".">> \o itoa(o[3]) \o <<".">> \o itoa(o[4])
\* Display for std::net::Ipv6Addr on the addresses of the model
Ipv6Table ==
    << <<ZeroBytes(16), "::">>,
       <<ZeroBytes(15) \o <<1>>, "::1">>,
       <<(<<32, 1, 13, 184>>) \o ZeroBytes(11) \o <<1>>, "2001:db8::1">>,
       <<(<<10, 0, 0, 1>>) \o ZeroBytes(12), "a00:1::">>,
       <<(<<127, 0, 0, 1>>) \o ZeroBytes(12), "7f00:1::">> >>
Ipv6Text(o) == <<Ipv6Table[CHOOSE i \in DOMAIN Ipv6Table : Ipv6Table[i][1] = o][2]>>

\* the tokens of the string literals the program writes
tokens(s) ==
    CASE s = ""     -> <<>>
      [] s = " "    -> <<" ">>
      [] s = "_"    -> <<"_">>
      [] s = " _"   -> <<" ", "_">>
      [] s = " _\n" -> <<" ", "_", "\n">>
      [] s = "\n"   -> <<"\n">>

\* the token sequences between the separator tokens: n separators give
\* n + 1 sequences, an empty one between adjacent separators
split_tokens(toks, sep) ==
    LET at == SelectSeq([i \in 1..Len(toks) |-> i], LAMBDA i : toks[i] = sep)
        from(k) == IF k = 1 THEN 1 ELSE at[k - 1] + 1
        to(k) == IF k > Len(at) THEN Len(toks) ELSE at[k] - 1
    IN  [k \in 1..(Len(at) + 1) |-> SubSeq(toks, from(k), to(k))] \o <<>>

\* str::split(sep) on text, collected: the fields, each one a token sequence
split(toks, sep) == split_tokens(toks, sep)
\* the fields as strings
field_names(fields) == [i \in DOMAIN fields |-> Concat(fields[i])] \o <<>>

\* Ipv4Addr::from_str: four u8 numbers between three "."
Ipv4_parts(s) == split_tokens(s, ".")
Ipv4_ok(s) ==
    LET parts == Ipv4_parts(s)
    IN  Len(parts) = 4 /\ \A i \in 1..4 : parse_ok("u8", parts[i])
\* IpAddr::from_str followed by the conversion to IpAddrUnspec: an IPv4
\* address fills the first four bytes, an IPv6 address all sixteen
IpAddr_ok(s) ==
    \/ Ipv4_ok(s)
    \/ \E i \in DOMAIN Ipv6Table : <<Ipv6Table[i][2]>> = s
IpAddr_from_str(s) ==
    IF Ipv4_ok(s)
    THEN [i \in 1..4 |-> parse_int("u8", Ipv4_parts(s)[i])] \o ZeroBytes(12)
    ELSE Ipv6Table[CHOOSE i \in DOMAIN Ipv6Table : <<Ipv6Table[i][2]>> = s][1]

\* BufRead::read_line until the end of the text: the lines, each one ending
\* with its "\n" token except possibly the last
read_lines(toks) ==
    LET parts == split_tokens(toks, "\n")
        n == Len(parts) - 1
        whole == [i \in 1..n |-> Append(parts[i], "\n")]
    IN  IF parts[n + 1] = <<>> THEN whole ELSE Append(whole, parts[n + 1])

\* str::strip_suffix('\n')
strip_suffix_ok(line) == line # <<>> /\ line[Len(line)] = "\n"
strip_suffix(line) == Take(line, Len(line) - 1)

(***************************************************************************)
(* Tabular text of values (src/csv/src/lib.rs, src/csv-derive/src/lib.rs   *)
(* and the impls of src/tcpdiag/src).  csv_write gives the tokens written, *)
(* with ok = FALSE when the write panics.                                  *)
(***************************************************************************)
\* <T as CsvWrite>::DESC
RECURSIVE DESC(_)
DESC(t) ==
    CASE t = "Wscale"        -> DESC("WscaleExp")
      [] t = "Skip"          -> DStruct(<<>>)
      [] t \in OptionTypes   -> DOption(DESC(Inner(t)))
      [] t \in StructTypes   ->
            DStruct([i \in DOMAIN Fields(t) |->
                        LET f == Fields(t)[i] IN <<CsvNameOf(f), DESC(CsvTypeOf(f))>>])
      [] OTHER               -> Atom

\* what the loop for _ in 1..len writes: len - 1 times " _"
underscores(len) ==
    [i \in 1..(IF len > 1 THEN 2 * (len - 1) ELSE 0) |->
        tokens(" _")[IF i % 2 = 1 THEN 1 ELSE 2]]

\* the context a derived write or serialize passes to a field: () unless the
\* field has #[pass(family)], where family is the struct's own context when
\* it declares #[context(family: u8)] and its field family otherwise
PassOf(t, f, obj, ctx) ==
    IF Len(f) = 3 /\ f[3] = "pass"
    THEN (IF t = "InetDiagSockid" THEN ctx ELSE obj.family)
    ELSE 0

\* Option<T>::write of None, len = T::DESC.len(): "_", then the loop
Option_write_none(len) == tokens("_") \o underscores(len)
\* Option<T>::read when the peeked field is "_": r.peekable() has taken the
\* field out of r; take(len) yields it and len - 1 more from r (fewer at
\* the end of the row), take(0) yields nothing and the Peekable is dropped
\* with the field in it
Option_read_none(len, r) ==
    [ok |-> TRUE, v |-> None,
     rest |-> Drop(r, IF len = 0 THEN 1 ELSE (IF len > Len(r) THEN Len(r) ELSE len))]

RECURSIVE csv_write(_, _, _)
RECURSIVE csv_write_fields(_, _, _, _, _)
\* the derived write: the first field, then " " and the field for every other
\* field; here for the fields lo..hi, by halving
csv_write_fields(t, obj, ctx, lo, hi) ==
    IF lo = hi
    THEN LET f == Fields(t)[lo]
             here == csv_write(CsvTypeOf(f), obj[f[1]], PassOf(t, f, obj, ctx))
         IN  [ok |-> here.ok,
              toks |-> (IF lo = 1 THEN <<>> ELSE tokens(" ")) \o here.toks]
    ELSE LET mid == (lo + hi) \div 2
             left == csv_write_fields(t, obj, ctx, lo, mid)
             right == csv_write_fields(t, obj, ctx, mid + 1, hi)
         IN  [ok |-> left.ok /\ right.ok, toks |-> left.toks \o right.toks]
csv_write(t, obj, ctx) ==
    CASE t \in {"u8", "u32", "u64"} -> [ok |-> TRUE, toks |-> itoa(obj)]
      [] t = "U16BE"  -> [ok |-> TRUE, toks |-> itoa(U16BE_get(obj))]
      [] t = "U64NE"  -> [ok |-> TRUE, toks |-> itoa(U64NE_get(obj))]
      [] t = "NlU64"  -> [ok |-> TRUE, toks |-> itoa(NlU64_get(obj))]
      [] t = "Wscale" -> csv_write("WscaleExp", Wscale_get(obj), ctx)
      [] t = "String" -> [ok |-> TRUE, toks |-> StrText(obj)]
      [] t = "Skip"   -> [ok |-> TRUE, toks |-> <<>>]
      [] t = "IpAddrUnspec" ->
            IF ctx = 2 THEN [ok |-> TRUE, toks |-> Ipv4Text(Take(obj, 4))]
            ELSE IF ctx = 10 THEN [ok |-> TRUE, toks |-> Ipv6Text(obj)]
            ELSE [ok |-> FALSE, toks |-> <<>>]
      [] t \in OptionTypes ->
            IF is_some(obj) THEN csv_write(Inner(t), obj[1], ctx)
            ELSE [ok |-> TRUE, toks |-> Option_write_none(Desc_len(DESC(Inner(t))))]
      [] t \in StructTypes -> csv_write_fields(t, obj, ctx, 1, Len(Fields(t)))

\* <T as Csv>::read on an iterator over the fields of a row: the value and
\* the fields left in the iterator, with ok = FALSE when the read panics
\* (next() on an exhausted iterator, a field that does not parse)
ReadPanic == [ok |-> FALSE, v |-> <<>>, rest |-> <<>>]
ReadAtom(okay, v, r) == IF okay THEN [ok |-> TRUE, v |-> v, rest |-> Tail(r)] ELSE ReadPanic

RECURSIVE csv_read(_, _)
RECURSIVE csv_read_fields(_, _, _, _)
\* the derived read: one let per field in declaration order, here for the
\* fields lo..hi (by halving); the result is the record of the values read
\* and the iterator after them
csv_read_fields(t, r, lo, hi) ==
    IF lo > hi THEN [ok |-> TRUE, v |-> <<>>, rest |-> r]
    ELSE IF lo = hi
    THEN LET here == csv_read(CsvTypeOf(Fields(t)[lo]), r)
         IN  IF here.ok THEN [here EXCEPT !.v = Fields(t)[lo][1] :> here.v] ELSE ReadPanic
    ELSE LET mid == (lo + hi) \div 2
             left == csv_read_fields(t, r, lo, mid)
         IN  IF ~left.ok THEN ReadPanic
             ELSE LET right == csv_read_fields(t, left.rest, mid + 1, hi)
                  IN  IF ~right.ok THEN ReadPanic
                      ELSE [ok |-> TRUE, v |-> left.v @@ right.v, rest |-> right.rest]
csv_read(t, r) ==
    CASE t \in {"u8", "u32", "u64"} ->
            ReadAtom(r # <<>> /\ parse_ok(t, Head(r)), parse_int(t, Head(r)), r)
      [] t = "U16BE"  ->
            ReadAtom(r # <<>> /\ parse_ok("u16", Head(r)), U16BE_new(parse_int("u16", Head(r))), r)
      [] t = "U64NE"  ->
            ReadAtom(r # <<>> /\ parse_ok("u64", Head(r)), U64NE_new(parse_int("u64", Head(r))), r)
      [] t = "NlU64"  ->
            ReadAtom(r # <<>> /\ parse_ok("u64", Head(r)), NlU64_new(parse_int("u64", Head(r))), r)
      [] t = "Wscale" ->
            LET exp == csv_read("WscaleExp", r)
            IN  IF exp.ok THEN [exp EXCEPT !.v = Wscale_new(exp.v)] ELSE ReadPanic
      [] t = "String" -> ReadAtom(r # <<>> /\ IsStrText(Head(r)), StrBytes(Head(r)), r)
      [] t = "Skip"   -> [ok |-> TRUE, v |-> 0, rest |-> r]
      [] t = "IpAddrUnspec" ->
            ReadAtom(r # <<>> /\ IpAddr_ok(Head(r)), IpAddr_from_str(Head(r)), r)
      [] t \in OptionTypes ->
            \* r.peekable(): peek() takes the next field out of r; what the
            \* Peekable holds when it is dropped is lost to r
            IF r = <<>> THEN ReadPanic
            ELSE IF Head(r) = tokens("_")
                 THEN Option_read_none(Desc_len(DESC(Inner(t))), r)
            ELSE LET some == csv_read(Inner(t), r)
                 IN  IF ~some.ok THEN ReadPanic
                     ELSE [ok |-> TRUE, v |-> Some(some.v),
                           rest |-> IF Len(some.rest) = Len(r) THEN Tail(r) ELSE some.rest]
      [] t \in StructTypes ->
            csv_read_fields(t, r, 1, Len(Fields(t)))

(***************************************************************************)
(* JSON of values (serde derives, src/serde-context-derive/src/lib.rs and  *)
(* the impls of src/tcpdiag/src).  A JSON value is a number, a string or   *)
(* an object with its members in order.                                    *)
(***************************************************************************)
JNum(n) == [k |-> "num", n |-> n]
JStr(str) == [k |-> "str", s |-> str]
JObj(members) == [k |-> "obj", m |-> members]

\* fields serde leaves out: #[serde(skip)], and None under
\* skip_serializing_if = "Option::is_none"
SerdeSkips(f, v) ==
    \/ Len(f) = 3 /\ f[3] = "Skip"
    \/ f[2] \in OptionTypes /\ ~is_some(v)

\* Serialize / SerializeWithContext::serialize; ok = FALSE when it panics
RECURSIVE json_ser(_, _, _)
RECURSIVE json_ser_fields(_, _, _, _, _)
\* the members serialize_struct receives for the fields lo..hi, by halving
json_ser_fields(t, obj, ctx, lo, hi) ==
    IF lo = hi
    THEN LET f == Fields(t)[lo]
         IN  IF SerdeSkips(f, obj[f[1]]) THEN [ok |-> TRUE, m |-> <<>>]
             ELSE LET here == json_ser(f[2], obj[f[1]], PassOf(t, f, obj, ctx))
                  IN  [ok |-> here.ok, m |-> << <<f[1], here.j>> >>]
    ELSE LET mid == (lo + hi) \div 2
             left == json_ser_fields(t, obj, ctx, lo, mid)
             right == json_ser_fields(t, obj, ctx, mid + 1, hi)
         IN  [ok |-> left.ok /\ right.ok, m |-> left.m \o right.m]
json_ser(t, obj, ctx) ==
    CASE t \in {"u8", "u32", "u64"} -> [ok |-> TRUE, j |-> JNum(obj)]
      [] t = "U16BE"  -> [ok |-> TRUE, j |-> JNum(U16BE_get(obj))]
      [] t = "U64NE"  -> [ok |-> TRUE, j |-> JNum(U64NE_get(obj))]
      [] t = "NlU64"  -> [ok |-> TRUE, j |-> JNum(NlU64_get(obj))]
      [] t = "Wscale" -> json_ser("WscaleExp", Wscale_get(obj), ctx)
      [] t = "String" -> [ok |-> TRUE, j |-> JStr(StrText(obj))]
      [] t = "IpAddrUnspec" ->
            IF ctx = 2 THEN [ok |-> TRUE, j |-> JStr(Ipv4Text(Take(obj, 4)))]
            ELSE IF ctx = 10 THEN [ok |-> TRUE, j |-> JStr(Ipv6Text(obj))]
            ELSE [ok |-> FALSE, j |-> JStr("")]
      [] t \in OptionTypes -> json_ser(Inner(t), obj[1], ctx)
      [] t \in StructTypes ->
            LET all == json_ser_fields(t, obj, ctx, 1, Len(Fields(t)))
            IN  [ok |-> all.ok, j |-> JObj(all.m)]

\* the member of an object with a key
has_key(j, key) == \E i \in DOMAIN j.m : j.m[i][1] = key
member(j, key) == j.m[CHOOSE i \in DOMAIN j.m : j.m[i][1] = key][2]

\* Deserialize::deserialize: the value, or ok = FALSE for an error (a value of
\* the wrong kind, a number out of range, a missing field that is no Option)
DeError == [ok |-> FALSE, v |-> <<>>]
RECURSIVE json_de(_, _)
RECURSIVE json_de_fields(_, _, _, _)
\* the derived visitor for the fields lo..hi, by halving: a #[serde(skip)]
\* field is its default, an absent Option is None, any other absent field is
\* an error
json_de_fields(t, j, lo, hi) ==
    IF lo = hi
    THEN LET f == Fields(t)[lo]
         IN  IF Len(f) = 3 /\ f[3] = "Skip" THEN [ok |-> TRUE, v |-> f[1] :> 0]
             ELSE IF ~has_key(j, f[1])
             THEN [ok |-> f[2] \in OptionTypes, v |-> f[1] :> None]
             ELSE LET here == json_de(f[2], member(j, f[1]))
                  IN  [ok |-> here.ok, v |-> f[1] :> here.v]
    ELSE LET mid == (lo + hi) \div 2
             left == json_de_fields(t, j, lo, mid)
             right == json_de_fields(t, j, mid + 1, hi)
         IN  [ok |-> left.ok /\ right.ok, v |-> left.v @@ right.v]
json_de(t, j) ==
    CASE t \in {"u8", "u32", "u64"} ->
            IF j.k = "num" /\ j.n <= ParseMax(t) THEN [ok |-> TRUE, v |-> j.n] ELSE DeError
      [] t = "U16BE"  ->
            IF j.k = "num" /\ j.n <= U16_MAX THEN [ok |-> TRUE, v |-> U16BE_new(j.n)] ELSE DeError
      [] t = "U64NE"  -> IF j.k = "num" THEN [ok |-> TRUE, v |-> U64NE_new(j.n)] ELSE DeError
      [] t = "NlU64"  -> IF j.k = "num" THEN [ok |-> TRUE, v |-> NlU64_new(j.n)] ELSE DeError
      [] t = "Wscale" ->
            LET exp == json_de("WscaleExp", j)
            IN  IF exp.ok THEN [ok |-> TRUE, v |-> Wscale_new(exp.v)] ELSE DeError
      [] t = "String" ->
            IF j.k = "str" /\ IsStrText(j.s) THEN [ok |-> TRUE, v |-> StrBytes(j.s)] ELSE DeError
      [] t = "IpAddrUnspec" ->
            IF j.k = "str" /\ IpAddr_ok(j.s) THEN [ok |-> TRUE, v |-> IpAddr_from_str(j.s)]
            ELSE DeError
      [] t \in OptionTypes ->
            LET some == json_de(Inner(t), j)
            IN  IF some.ok THEN [ok |-> TRUE, v |-> Some(some.v)] ELSE DeError
      [] t \in StructTypes ->
            IF j.k # "obj" THEN DeError
            ELSE LET all == json_de_fields(t, j, 1, Len(Fields(t)))
                 IN  IF all.ok THEN all ELSE DeError

(***************************************************************************)
(* The sinks (src/tcpdiag/src/binary.rs, json.rs, csv.rs; main.rs holds    *)
(* the same code).  A sink is a record of its kind, what its writer        *)
(* received, and the fields of the three structs.  SystemTime and Duration *)
(* are nanoseconds, SystemTime counted from the epoch.  An operation gives *)
(* the sink after it and ok = FALSE when it panics.                        *)
(***************************************************************************)
UNIX_EPOCH == 0
as_micros(ns) == ns \div 1000
from_micros(us) == us * 1000

\* read_netlink before it is called
\* struct timespec of CLOCK_MONOTONIC; a Duration is a number of nanoseconds
Timespec(sec, nsec) == [tv_sec |-> sec, tv_nsec |-> nsec]
as_secs(d) == d \div 1000000000
subsec_nanos(d) == d % 1000000000
from_secs_f64(p) == p

\* add_nanos on tv_nsec: the sum, and whether a second was carried
add_nanos_no_carry(self, nanos) ==
    IF self + nanos >= 1000000000
    THEN [v |-> self + nanos - 1000000000, carry |-> FALSE]
    ELSE [v |-> self + nanos, carry |-> FALSE]
\* add_nanos that carries only above a whole second
add_nanos_late_carry(self, nanos) ==
    IF self + nanos > 1000000000
    THEN [v |-> self + nanos - 1000000000, carry |-> TRUE]
    ELSE [v |-> self + nanos, carry |-> FALSE]
add_nanos(self, nanos) ==
    IF self + nanos >= 1000000000
    THEN [v |-> self + nanos - 1000000000, carry |-> TRUE]
    ELSE [v |-> self + nanos, carry |-> FALSE]

\* self += rhs for a Timespec and a Duration
add_assign_carry(self, rhs, n) ==
    Timespec(self.tv_sec + as_secs(rhs) + (IF n.carry THEN 1 ELSE 0), n.v)
add_assign(self, rhs) ==
    add_assign_carry(self, rhs, add_nanos(self.tv_nsec, subsec_nanos(rhs)))

\* the order of the instants of the clock
Timespec_lt(a, b) ==
    a.tv_sec < b.tv_sec \/ (a.tv_sec = b.tv_sec /\ a.tv_nsec < b.tv_nsec)

\* errno values
EINTR == 4
EINVAL == 22

\* clock_nanosleep with TIMER_ABSTIME: the clock when the call returns rc;
\* it returns 0 once the deadline is reached, at once when it is past
clock_nanosleep(clock, deadline, rc) ==
    IF rc = 0 /\ Timespec_lt(clock, deadline) THEN deadline ELSE clock

\* the match of sleep_until on the call's result rc, with the value errno
\* holds: the call returns its error number and leaves errno alone, and
\* the error matched is Error::last_os_error()
sleep_until_match(rc, errno) ==
    IF rc = 0 THEN "break"
    ELSE IF errno = EINTR THEN "continue"
    ELSE "panic"

\* the state of read_netlink: its arguments and locals (buf is the receive
\* buffer after the last recv_from), the monotonic
\* clock, the thread's errno, the last result of clock_nanosleep and the
\* calls of the running sleep_until, and env, what the surroundings of the
\* run can do: the durations of a sweep, the results of the sleep call and
\* the values earlier calls left in errno
NoNetlink ==
    [args |-> [inet4 |-> FALSE, inet6 |-> FALSE, period |-> <<>>, count |-> <<>>],
     count |-> 0, period_start |-> Timespec(0, 0), families |-> <<>>, family |-> 0,
     requests |-> <<>>, sweeps |-> 0, recvs |-> 0, buf |-> <<>>,
     clock |-> Timespec(0, 0), errno |-> 0, ret |-> 0, calls |-> 0,
     env |-> [elapsed |-> {}, rets |-> {}, errnos |-> {}]]

NoSink == [kind |-> "none", writer |-> <<>>, time |-> UNIX_EPOCH, trailer |-> "", comma |-> ""]

\* push_header with the payload length in nla_len, the 4 header bytes left out
BinaryOutput_push_header_payload_len(self, ty, len) ==
    [ok |-> len <= U16_MAX,
     sink |-> [self EXCEPT !.writer = @ \o nlattr_as_bytes(len, ty)]]

\* BinaryOutput::push_header, write_ts
BinaryOutput_push_header(self, ty, len) ==
    [ok |-> 4 + len <= U16_MAX,
     sink |-> [self EXCEPT !.writer = @ \o nlattr_as_bytes(4 + len, ty)]]
BinaryOutput_write_ts(self, ty, data) ==
    LET h == BinaryOutput_push_header(self, ty, Len(data))
    IN  [ok |-> h.ok, sink |-> [h.sink EXCEPT !.writer = @ \o data]]

BinaryOutput_new == [NoSink EXCEPT !.kind = "binary"]
BinaryOutput_out(self, data) ==
    LET h == BinaryOutput_push_header(self, 0, Len(data))
    IN  [ok |-> h.ok, sink |-> [h.sink EXCEPT !.writer = @ \o data]]
BinaryOutput_start(self, time) ==
    BinaryOutput_write_ts(self, 1, LE(8, as_micros(time)))
\* u32::try_from(duration.as_micros()).unwrap(): every duration of the model
\* fits
BinaryOutput_end(self, duration) ==
    BinaryOutput_write_ts(self, 2, LE(4, as_micros(duration)))

\* what the JSON sink writes: literal text, numbers, and the JSON of a sample
lit(text) == [k |-> "lit", s |-> text]
\* input bytes that are not UTF-8 text
raw(bytes) == [k |-> "raw", b |-> bytes]
is_utf8(items) == \A i \in DOMAIN items : items[i].k # "raw"

JsonOutput_new == [NoSink EXCEPT !.kind = "json"]
\* start that leaves comma as the last sweep left it
JsonOutput_start_keeps_comma(self, time) ==
    [ok |-> TRUE,
     sink |-> [self EXCEPT
                 !.writer = @ \o <<lit("{\"time\":"), JNum(as_micros(time)),
                                   lit(",\"samples\":[")>>]]
JsonOutput_start(self, time) ==
    [ok |-> TRUE,
     sink |-> [self EXCEPT
                 !.writer = @ \o <<lit("{\"time\":"), JNum(as_micros(time)),
                                   lit(",\"samples\":[")>>,
                 !.comma = ""]]
JsonOutput_end(self, duration) ==
    [ok |-> TRUE,
     sink |-> [self EXCEPT
                 !.writer = @ \o <<lit("],\"duration\":"), JNum(as_micros(duration)),
                                   lit("}"), lit("\n")>>]]
JsonOutput_write(self, json) ==
    [ok |-> json.ok,
     sink |-> [self EXCEPT
                 !.writer = @ \o (IF self.comma = "" THEN <<>> ELSE <<lit(self.comma)>>)
                              \o <<json.j>>,
                 !.comma = ","]]
JsonOutput_extras(self, extras) ==
    IF ~extras.ok THEN [ok |-> FALSE, sink |-> self]
    ELSE JsonOutput_write(self, json_ser("InetDiagMsgExtra", extras.v, 0))
JsonOutput_out(self, data) == JsonOutput_extras(self, parse(data))

\* the header line: the names cprint writes, each followed by " "
CSV_HEADER == post_process(header_block(DESC("CsvLineOwned"))).pieces

CsvOutput_new == [NoSink EXCEPT !.kind = "csv", !.writer = CSV_HEADER \o tokens("\n")]
CsvOutput_start(self, time) ==
    [ok |-> TRUE, sink |-> [self EXCEPT !.time = time, !.trailer = ""]]
\* out that ends the row before it with "\n" alone
CsvOutput_write(self, written, trailer) ==
    [ok |-> written.ok,
     sink |-> [self EXCEPT
                 !.writer = @ \o tokens(self.trailer) \o written.toks,
                 !.trailer = trailer]]
\* the trailer of the row before is written before parse runs
CsvOutput_extras(self, extras, trailer) ==
    IF ~extras.ok
    THEN [ok |-> FALSE, sink |-> [self EXCEPT !.writer = @ \o tokens(self.trailer)]]
    ELSE CsvOutput_write(
             self,
             csv_write("CsvLine", [time |-> as_micros(self.time), data |-> Some(extras.v)], 0),
             trailer)
CsvOutput_out_newline_trailer(self, data) == CsvOutput_extras(self, parse(data), "\n")
\* end that writes no row of its own for a sweep without samples
CsvOutput_end_no_placeholder(self, duration) ==
    [ok |-> TRUE,
     sink |-> [self EXCEPT
                 !.writer = @ \o tokens(" ") \o itoa(as_micros(duration)) \o tokens("\n")]]
CsvOutput_out(self, data) == CsvOutput_extras(self, parse(data), " _\n")
CsvOutput_end(self, duration) ==
    LET line == [time |-> as_micros(self.time), data |-> None]
        placeholder == IF self.trailer = "" THEN csv_write("CsvLine", line, 0).toks ELSE <<>>
    IN  [ok |-> TRUE,
         sink |-> [self EXCEPT
                     !.writer = @ \o placeholder
                                  \o tokens(" ") \o itoa(as_micros(duration)) \o tokens("\n")]]

\* the calls through Box<dyn Collector>
Collector_new(kind) ==
    CASE kind = "binary" -> BinaryOutput_new
      [] kind = "json"   -> JsonOutput_new
      [] kind = "csv"    -> CsvOutput_new
Collector_start(self, time) ==
    CASE self.kind = "binary" -> BinaryOutput_start(self, time)
      [] self.kind = "json"   -> JsonOutput_start(self, time)
      [] self.kind = "csv"    -> CsvOutput_start(self, time)
Collector_out(self, data) ==
    CASE self.kind = "binary" -> BinaryOutput_out(self, data)
      [] self.kind = "json"   -> JsonOutput_out(self, data)
      [] self.kind = "csv"    -> CsvOutput_out(self, data)
Collector_end(self, duration) ==
    CASE self.kind = "binary" -> BinaryOutput_end(self, duration)
      [] self.kind = "json"   -> JsonOutput_end(self, duration)
      [] self.kind = "csv"    -> CsvOutput_end(self, duration)

(***************************************************************************)
(* The readers of --convert (read_binary, read_json, read_csv).  A reader  *)
(* is a record of the input it has not read yet and the locals of its      *)
(* loop.  One turn of a reader's loop gives the calls it makes on the      *)
(* downstream sink, in order, with ok = FALSE when the turn panics after   *)
(* them.                                                                   *)
(***************************************************************************)
NoReader == [kind |-> "none", input |-> <<>>, time |-> UNIX_EPOCH, reorder |-> None]

Event(ev, time, data, duration) == [ev |-> ev, time |-> time, data |-> data, duration |-> duration]
EvStart(time) == Event("start", time, <<>>, 0)
EvOut(data) == Event("out", 0, data, 0)
EvEnd(duration) == Event("end", 0, <<>>, duration)

Turn(okay, reader, calls) == [ok |-> okay, rd |-> reader, calls |-> calls]

\* a reader that takes a record to end at the next multiple of four
read_binary_turn_aligned(r) ==
    IF Len(r.input) < 4 THEN Turn(FALSE, r, <<>>)
    ELSE LET nla_len == FromLE(Take(r.input, 2))
             nla_type == FromLE(SubSeq(r.input, 3, 4))
             buf == SubSeq(r.input, 5, nla_len)
             after == [r EXCEPT !.input = Drop(r.input, align4(nla_len))]
         IN  IF nla_len < 4 \/ nla_len > Len(r.input) THEN Turn(FALSE, r, <<>>)
             ELSE IF nla_type = 0 THEN Turn(TRUE, after, <<EvOut(buf)>>)
             ELSE IF nla_type = 1 /\ Len(buf) = 8
                  THEN Turn(TRUE, after, <<EvStart(UNIX_EPOCH + from_micros(FromLE(buf)))>>)
             ELSE IF nla_type = 2 /\ Len(buf) = 4
                  THEN Turn(TRUE, after, <<EvEnd(from_micros(FromLE(buf)))>>)
             ELSE Turn(FALSE, after, <<>>)
\* one turn of the loop of read_binary on input that is not at its end: the
\* header, the payload of nla_len - 4 bytes, and the call for the record type
read_binary_turn(r) ==
    IF Len(r.input) < 4 THEN Turn(FALSE, r, <<>>)
    ELSE LET nla_len == FromLE(Take(r.input, 2))
             nla_type == FromLE(SubSeq(r.input, 3, 4))
             buf == SubSeq(r.input, 5, nla_len)
             after == [r EXCEPT !.input = Drop(r.input, nla_len)]
         IN  IF nla_len < 4 \/ nla_len > Len(r.input) THEN Turn(FALSE, r, <<>>)
             ELSE IF nla_type = 0 THEN Turn(TRUE, after, <<EvOut(buf)>>)
             ELSE IF nla_type = 1
                  THEN (IF Len(buf) = 8
                        THEN Turn(TRUE, after, <<EvStart(UNIX_EPOCH + from_micros(FromLE(buf)))>>)
                        ELSE Turn(FALSE, after, <<>>))
             ELSE IF nla_type = 2
                  THEN (IF Len(buf) = 4
                        THEN Turn(TRUE, after, <<EvEnd(from_micros(FromLE(buf)))>>)
                        ELSE Turn(FALSE, after, <<>>))
             ELSE Turn(FALSE, after, <<>>)

\* the first position of x in input[lo..hi], 0 when there is none (by halving)
RECURSIVE position(_, _, _, _)
position(input, x, lo, hi) ==
    IF lo > hi THEN 0
    ELSE IF lo = hi THEN (IF input[lo] = x THEN lo ELSE 0)
    ELSE LET mid == (lo + hi) \div 2
             left == position(input, x, lo, mid)
         IN  IF left # 0 THEN left ELSE position(input, x, mid + 1, hi)

\* BufRead::read_line: the text up to and including the first "\n", or all
\* of it when it has none
read_line(input, newline) ==
    LET at == position(input, newline, 1, Len(input))
    IN  IF at = 0 THEN input ELSE Take(input, at)

\* serde_json::from_str::<JsonFormat> on a line of the shape the JSON sink
\* writes; any other line, a missing member or a member that does not
\* deserialize is an error
is_lit(item, text) == item.k = "lit" /\ item.s = text
json_de_sample(item, x) == [ok |-> item.k = "obj" /\ x.ok, v |-> <<x.v>>]
RECURSIVE json_de_samples(_, _, _)
json_de_samples(region, lo, hi) ==
    IF lo > hi THEN [ok |-> TRUE, v |-> <<>>]
    ELSE IF lo = hi
    THEN (IF lo % 2 = 0 THEN [ok |-> is_lit(region[lo], ","), v |-> <<>>]
          ELSE json_de_sample(region[lo], json_de("InetDiagMsgExtra", region[lo])))
    ELSE LET mid == (lo + hi) \div 2
             left == json_de_samples(region, lo, mid)
             right == json_de_samples(region, mid + 1, hi)
         IN  [ok |-> left.ok /\ right.ok, v |-> left.v \o right.v]
JsonFormat_members(items, n, region, samples) ==
        IF /\ n >= 6
           /\ is_lit(items[1], "{\"time\":") /\ items[2].k = "num"
           /\ is_lit(items[3], ",\"samples\":[")
           /\ is_lit(items[n - 2], "],\"duration\":") /\ items[n - 1].k = "num"
           /\ is_lit(items[n], "}")
           /\ Len(region) % 2 = (IF region = <<>> THEN 0 ELSE 1)
           /\ samples.ok
        THEN [ok |-> TRUE, time |-> items[2].n, samples |-> samples.v,
              duration |-> items[n - 1].n]
        ELSE [ok |-> FALSE, time |-> 0, samples |-> <<>>, duration |-> 0]
JsonFormat_region(items, region) ==
    JsonFormat_members(items, Len(items), region, json_de_samples(region, 1, Len(region)))
JsonFormat_items(items) == JsonFormat_region(items, SubSeq(items, 4, Len(items) - 3))
JsonFormat_from_str(line) ==
    JsonFormat_items(IF line # <<>> /\ is_lit(line[Len(line)], "\n")
                     THEN Take(line, Len(line) - 1) ELSE line)

\* one turn of the loop of read_json on input that is not at its end: after
\* is the reader past the line, json what the line deserializes to
read_json_calls(after, json) ==
    IF ~json.ok THEN Turn(TRUE, after, <<>>)
    ELSE Turn(\A i \in DOMAIN json.samples : to_vec_ok(json.samples[i]),
              after,
              <<EvStart(UNIX_EPOCH + from_micros(json.time))>>
                  \o [i \in DOMAIN json.samples |-> EvOut(to_vec(json.samples[i]))]
                  \o <<EvEnd(from_micros(json.duration))>>)
\* read_line(&mut buf).unwrap() fails on a line that is not UTF-8
read_json_line(r, buf) ==
    IF is_utf8(buf)
    THEN read_json_calls([r EXCEPT !.input = Drop(r.input, Len(buf))],
                         JsonFormat_from_str(buf))
    ELSE Turn(FALSE, r, <<>>)
read_json_turn(r) == read_json_line(r, read_line(r.input, lit("\n")))

\* the prefix of read_csv up to the loop over the rows: the header line and
\* the column order when the header is not the one the sink writes
starts_with(text, prefix) ==
    Len(text) >= Len(prefix) /\ SubSeq(text, 1, Len(prefix)) = prefix
\* HashMap::get on header.split(" ").zip(0..): the last position of the name
header_map_get(names, key) ==
    IF \E i \in DOMAIN names : names[i] = key
    THEN Some((CHOOSE i \in DOMAIN names :
                  names[i] = key /\ \A j \in DOMAIN names : names[j] = key => j <= i) - 1)
    ELSE None
read_csv_header(r) ==
    LET line == read_line(r.input, "\n")
        after == [r EXCEPT !.input = Drop(r.input, Len(line))]
        hdr == strip_suffix(line)
        names == field_names(split(hdr, " "))
        wanted == field_names(split(CSV_HEADER, " "))
    IN  IF ~strip_suffix_ok(line) THEN Turn(FALSE, r, <<>>)
        ELSE IF starts_with(hdr, CSV_HEADER) THEN Turn(TRUE, after, <<>>)
        ELSE Turn(TRUE,
                  [after EXCEPT !.reorder =
                      Some([k \in DOMAIN wanted |-> header_map_get(names, wanted[k])])],
                  <<>>)

\* the row's own fields even when the header asked for a column order
row_fields_as_written(reorder, fields) == fields
\* the fields CsvLineOwned::read sees: the row's own, or through reorder the
\* field at the position of each column of CSV_HEADER, "_" when there is none
row_fields(reorder, fields) ==
    IF ~is_some(reorder) THEN fields
    ELSE [k \in DOMAIN reorder[1] |->
            LET i == reorder[1][k]
            IN  IF is_some(i) /\ i[1] < Len(fields) THEN fields[i[1] + 1] ELSE tokens("_")]

\* one turn of the loop of read_csv on input that is not at its end
\* after is the reader past the line, line what CsvLineOwned::read made of it
read_csv_calls(r, okay, after, line) ==
    LET time_new == UNIX_EPOCH + from_micros(line.v.time)
        start == IF r.time # time_new THEN <<EvStart(time_new)>> ELSE <<>>
        out == IF is_some(line.v.data) THEN <<EvOut(to_vec(line.v.data[1]))>> ELSE <<>>
        end == IF is_some(line.v.duration)
               THEN <<EvEnd(from_micros(line.v.duration[1]))>> ELSE <<>>
    IN  IF ~okay \/ ~line.ok THEN Turn(FALSE, after, <<>>)
        ELSE IF is_some(line.v.data) /\ ~to_vec_ok(line.v.data[1])
        THEN Turn(FALSE, [after EXCEPT !.time = time_new], start)
        ELSE Turn(TRUE, [after EXCEPT !.time = time_new], start \o out \o end)
read_csv_line(r, buf) ==
    read_csv_calls(r, strip_suffix_ok(buf),
                   [r EXCEPT !.input = Drop(r.input, Len(buf))],
                   csv_read("CsvLineOwned",
                            row_fields(r.reorder, split(strip_suffix(buf), " "))))
read_csv_turn(r) == read_csv_line(r, read_line(r.input, "\n"))

\* main with --convert: the reader is chosen by the first bytes of stdin.
\* "foreign" and "unrecognized" abort, "empty" reads nothing.
detect_text_first(peek) ==
    IF Len(peek) >= 2 /\ peek[1] = 123 /\ peek[2] = 34 THEN "json"
    ELSE IF Len(peek) >= 1 /\ (peek[1] = 35 \/ (peek[1] >= 97 /\ peek[1] <= 122)) THEN "csv"
    ELSE IF Len(peek) >= 4 /\ peek[3] = 1 /\ peek[4] = 0 THEN "binary"
    ELSE IF Len(peek) >= 4 /\ peek[3] = 0 /\ peek[4] = 1 THEN "foreign"
    ELSE IF Len(peek) = 0 THEN "empty"
    ELSE "unrecognized"
detect(peek) ==
    IF Len(peek) >= 4 /\ peek[3] = 1 /\ peek[4] = 0 THEN "binary"
    ELSE IF Len(peek) >= 4 /\ peek[3] = 0 /\ peek[4] = 1 THEN "foreign"
    ELSE IF Len(peek) >= 2 /\ peek[1] = 123 /\ peek[2] = 34 THEN "json"
    ELSE IF Len(peek) >= 1 /\ (peek[1] = 35 \/ (peek[1] >= 97 /\ peek[1] <= 122)) THEN "csv"
    ELSE IF Len(peek) = 0 THEN "empty"
    ELSE "unrecognized"

\* the first bytes of what a sink wrote: of text, the bytes of the text the
\* JSON sink and the tabular sink start with
fill_buf(written) ==
    IF written.writer = <<>> THEN <<>>
    ELSE IF written.kind = "binary" THEN Take(written.writer, 4)
    ELSE IF written.kind = "json" /\ is_lit(written.writer[1], "{\"time\":")
         THEN <<123, 34, 116, 105>>
    ELSE IF written.kind = "csv" /\ written.writer[1] = "time"
         THEN <<116, 105, 109, 101>>
    ELSE <<0>>

reader_new(kind, input) == [NoReader EXCEPT !.kind = kind, !.input = input]
reader_open(r) ==
    IF r.kind = "csv" THEN read_csv_header(r) ELSE Turn(r.kind \in {"binary", "json"}, r, <<>>)
reader_turn(r) ==
    CASE r.kind = "binary" -> read_binary_turn(r)
      [] r.kind = "json"   -> read_json_turn(r)
      [] r.kind = "csv"    -> read_csv_turn(r)

\* the calls of one turn made on a sink, in order; a call that panics ends it
Collector_call(self, e) ==
    CASE e.ev = "start" -> Collector_start(self, e.time)
      [] e.ev = "out"   -> Collector_out(self, e.data)
      [] e.ev = "end"   -> Collector_end(self, e.duration)
RECURSIVE deliver(_, _, _)
deliver_next(r, calls, i) ==
    IF r.ok THEN deliver(r.sink, calls, i + 1) ELSE [ok |-> FALSE, sink |-> r.sink, n |-> i]
deliver(self, calls, i) ==
    IF i > Len(calls) THEN [ok |-> TRUE, sink |-> self, n |-> Len(calls)]
    ELSE deliver_next(Collector_call(self, calls[i]), calls, i)

(***************************************************************************)
(* Sample payloads: what the kernel puts after the nlmsghdr of one         *)
(* SOCK_DIAG_BY_FAMILY message, an inet_diag_msg followed by attributes.   *)
(***************************************************************************)
\* a value of type t whose leaves are small numbers that differ by position
RECURSIVE Filled(_, _)
RECURSIVE Filled_fields(_, _, _, _)
Filled_fields(t, seed, lo, hi) ==
    IF lo = hi THEN Fields(t)[lo][1] :> Filled(Fields(t)[lo][2], seed + 7 * lo)
    ELSE Filled_fields(t, seed, lo, (lo + hi) \div 2)
             @@ Filled_fields(t, seed, (lo + hi) \div 2 + 1, hi)
Filled(t, seed) ==
    CASE t = "u8"     -> seed % 200
      [] t = "u32"    -> seed % MaxNumber
      [] t = "Wscale" -> (seed * 37) % 256
      [] t = "U16BE"  -> U16BE_new(seed % MaxNumber)
      [] t = "U64NE"  -> U64NE_new(seed % MaxNumber)
      [] t = "NlU64"  -> NlU64_new(seed % MaxNumber)
      [] t \in StructTypes -> Filled_fields(t, seed, 1, Len(Fields(t)))

AF_INET == 2
AF_INET6 == 10

SampleBase(family, src, dst) ==
    [family |-> family, state |-> 1, timer |-> 0, retrans |-> 0,
     id |-> [sport |-> U16BE_new(22), dport |-> U16BE_new(258),
             src |-> src, dst |-> dst, ifindex |-> 0, cookie |-> NlU64_new(77)],
     expires |-> 0, rqueue |-> 0, wqueue |-> 36, uid |-> 100, inode |-> 299]

SampleBases ==
    << SampleBase(AF_INET, (<<10, 0, 0, 1>>) \o ZeroBytes(12),
                           (<<127, 0, 0, 1>>) \o ZeroBytes(12)),
       SampleBase(AF_INET6, ZeroBytes(15) \o <<1>>,
                            (<<32, 1, 13, 184>>) \o ZeroBytes(11) \o <<1>>) >>

\* one attribute as the kernel lays it out: header, payload, padding to four
KernelAttr(ty, data) == pad_to_4(nlattr_as_bytes(4 + Len(data), ty) \o data)

InfoAttr == KernelAttr(INET_DIAG_INFO, as_bytes("TcpInfo", Filled("TcpInfo", 3)))
CongAttr(name) == KernelAttr(INET_DIAG_CONG, StrBytes(<<name>>) \o <<0>>)
BbrAttr == KernelAttr(INET_DIAG_BBRINFO, as_bytes("BbrInfo", Filled("BbrInfo", 5)))
Bbr3Attr ==
    KernelAttr(INET_DIAG_BBRINFO,
               as_bytes("BbrInfo", Filled("BbrInfo", 5))
                   \o as_bytes("Bbr3Info", [Filled("Bbr3Info", 11) EXCEPT !.unused1 = 0]))
\* INET_DIAG_SHUTDOWN, an attribute InetDiagMsgExtra::parse ignores
INET_DIAG_SHUTDOWN == 8
ShutdownAttr == KernelAttr(INET_DIAG_SHUTDOWN, <<3>>)

\* the attribute lists of the model: every combination of cong, tcp_info and
\* bbr without or with the bbr3 extension, in the order to_vec writes them,
\* and two lists in another order, one with an ignored attribute
AttrLists ==
    LET congs == {<<>>, CongAttr("cubic")}
        infos == {<<>>, InfoAttr}
        bbrs  == {<<>>, BbrAttr, Bbr3Attr}
    IN  {c \o i \o b : c \in congs, i \in infos, b \in bbrs}
            \cup {InfoAttr \o CongAttr("bbr"), ShutdownAttr \o CongAttr("reno")}

Payloads ==
    {as_bytes("InetDiagMsg", SampleBases[k]) \o a : k \in DOMAIN SampleBases, a \in AttrLists}

(***************************************************************************)
(* Specification SpecDesc: the schema functions applied to every           *)
(* descriptor of a bounded family: two levels of Option, Array and Struct  *)
(* over Atom.                                                              *)
(***************************************************************************)
MaxFields == 2      \* most children of a struct descriptor of the first level
BigBuffer == 2048   \* a buffer that holds the header of every descriptor here
FieldNames == {"", "a", "bc"}
ArrayLens == {0, 1, 3, 11}

Wrap1(S) ==
    {DOption(d) : d \in S}
    \cup {DArray(n, d) : n \in ArrayLens, d \in S}

DescLevel0 == {Atom}
DescLevel1 ==
    DescLevel0 \cup Wrap1(DescLevel0)
    \cup {DStruct(m) : m \in SeqsUpTo(FieldNames \X DescLevel0, MaxFields)}
DescLevel2 ==
    DescLevel1 \cup Wrap1(DescLevel1)
    \cup {DStruct(<<f>>) : f \in FieldNames \X DescLevel1}
    \cup {DStruct(<<f, g>>) : f \in FieldNames \X DescLevel1, g \in FieldNames \X DescLevel1}

NoWriter == Writer_new(0)
NoHeader == [ok |-> FALSE, pieces |-> <<>>]

InitDesc ==
    /\ pc = "desc"
    /\ desc \in DescLevel2 \cup {DESC("CsvLineOwned")}
    /\ cwriter = NoWriter
    /\ header = NoHeader
    /\ sink = NoSink
    /\ log = <<>>
    /\ direct = NoSink
    /\ rd = NoReader
    /\ down = NoSink
    /\ dlog = <<>>
    /\ nl = NoNetlink
    /\ arg = <<>>
    /\ ret = <<>>

\* the const block that computes the header buffer with SIZE = desc_size
ConstHeader ==
    /\ pc = "desc"
    /\ cwriter' = header_block(desc)
    /\ pc' = IF cwriter'.ok THEN "buffer" ELSE "block_panic"
    /\ UNCHANGED <<desc, header, fnVars, sinkVars, convVars, nl>>

\* post_process of the buffer
PostProcess ==
    /\ pc = "buffer"
    /\ header' = post_process(cwriter)
    /\ pc' = IF header'.ok THEN "header" ELSE "post_panic"
    /\ UNCHANGED <<desc, cwriter, fnVars, sinkVars, convVars, nl>>

\* cprint with an empty prefix into a buffer with room to spare
Cprint ==
    /\ pc = "desc"
    /\ cwriter' = cprint(BigBuffer, Writer_new(BigBuffer), "", desc)
    /\ pc' = IF cwriter'.ok THEN "cprint" ELSE "block_panic"
    /\ UNCHANGED <<desc, header, fnVars, sinkVars, convVars, nl>>

NextDesc == ConstHeader \/ PostProcess \/ Cprint

SpecDesc == InitDesc /\ [][NextDesc]_vars

(***************************************************************************)
(* Claims about the schema descriptor.                                     *)
(***************************************************************************)
\* the column names in a written header: every name is followed by one " "
NamesEmitted(w) ==
    IF /\ Len(w.pieces) % 2 = 0
       /\ \A i \in 1..Len(w.pieces) : (w.pieces[i] = " ") <=> (i % 2 = 0)
    THEN Len(w.pieces) \div 2
    ELSE -1

\* C9 as stated: desc_size(d) is exactly the number of bytes cprint writes for
\* d with an empty prefix, so the const block fills its buffer completely and
\* never indexes past it.
C9_DescSizeExact ==
    /\ pc # "block_panic"
    /\ pc \in {"buffer", "cprint"} => cwriter.pos = desc_size(desc)

\* C10: Desc::len(d) is the number of column names cprint emits for d with an
\* empty prefix, each name followed by one space.
C10_LenIsNameCount ==
    pc \in {"buffer", "cprint"} => NamesEmitted(cwriter) = Desc_len(desc)

C10_Witness ==
    /\ pc = "cprint"
    /\ desc.k = "Struct"
    /\ Len(desc.m) = 2
    /\ desc.m[1][1] = "" /\ desc.m[1][2].k = "Array" /\ desc.m[1][2].n = 11
    /\ desc.m[2][2].k = "Struct" /\ Len(desc.m[2][2].m) = 2
    /\ NamesEmitted(cwriter) = 13

(***************************************************************************)
(* Specification SpecOption: an absent Option<T> is written, and read from *)
(* the fields of a row that starts with "_", for inner types T of every    *)
(* descriptor of the bounded family with at most MaxColumns columns.       *)
(***************************************************************************)
MaxColumns == 4     \* most columns of the inner type
MaxRow == 6         \* most fields of the row that is read

\* rows of j fields "_" followed by k fields "7"
OptionRows ==
    {[i \in 1..(j + k) |-> IF i <= j THEN tokens("_") ELSE <<"7">>] :
        j \in 1..MaxColumns, k \in 0..(MaxRow - MaxColumns)}

InitOption ==
    /\ pc = "option"
    /\ desc \in {d \in DescLevel2 : Desc_len(d) <= MaxColumns}
    /\ arg \in OptionRows
    /\ ret = <<>>
    /\ cwriter = NoWriter
    /\ header = NoHeader
    /\ sink = NoSink
    /\ log = <<>>
    /\ direct = NoSink
    /\ rd = NoReader
    /\ down = NoSink
    /\ dlog = <<>>
    /\ nl = NoNetlink

\* <Option<T> as CsvWrite>::write(&None, ..)
OptionWrite ==
    /\ pc = "option"
    /\ ret' = Option_write_none(Desc_len(desc))
    /\ pc' = "written"
    /\ UNCHANGED <<desc, cwriter, header, arg, sinkVars, convVars, nl>>

\* <Option<T> as Csv>::read on the fields of the row
OptionRead ==
    /\ pc = "option"
    /\ ret' = Option_read_none(Desc_len(desc), arg)
    /\ pc' = "read"
    /\ UNCHANGED <<desc, cwriter, header, arg, sinkVars, convVars, nl>>

NextOption == OptionWrite \/ OptionRead

SpecOption == InitOption /\ [][NextOption]_vars

\* n copies of "_" with one " " between them
Blanks(n) == [i \in 1..(IF n = 0 THEN 0 ELSE 2 * n - 1) |-> IF i % 2 = 1 THEN "_" ELSE " "]

\* C11 as stated: for every inner type T an absent Option<T> is written as
\* exactly columns(T) copies of "_" separated by single spaces, also when
\* columns(T) = 0, and reading an absent Option<T> consumes exactly columns(T)
\* fields of a row that has them.
C11_AbsentOptionColumns ==
    /\ pc = "written" => ret = Blanks(Desc_len(desc))
    /\ pc = "read" /\ Len(arg) >= Desc_len(desc)
          => Len(arg) - Len(ret.rest) = Desc_len(desc)

(***************************************************************************)
(* Specification SpecSink: a sink of each kind receives events in the      *)
(* order of the Collector contract, start, out any number of times, end.   *)
(***************************************************************************)
MaxEvents == 5      \* most events delivered in one behaviour
Formats == {"binary", "json", "csv"}
StartTimes == {0, 2999}
Durations == {1500, 7000}
SinkPayloads ==
    { as_bytes("InetDiagMsg", SampleBases[1]),
      as_bytes("InetDiagMsg", SampleBases[2]) \o CongAttr("cubic") \o InfoAttr \o Bbr3Attr,
      as_bytes("InetDiagMsg", SampleBases[2]) \o ShutdownAttr \o CongAttr("reno") }

InitSink ==
    /\ pc = "idle"
    /\ \E kind \in Formats : sink = Collector_new(kind)
    /\ log = <<>>
    /\ desc = Atom
    /\ cwriter = NoWriter
    /\ header = NoHeader
    /\ direct = NoSink
    /\ rd = NoReader
    /\ down = NoSink
    /\ dlog = <<>>
    /\ nl = NoNetlink
    /\ arg = <<>>
    /\ ret = <<>>

SinkStart ==
    /\ pc = "idle"
    /\ Len(log) < MaxEvents
    /\ \E time \in StartTimes :
          \E r \in {Collector_start(sink, time)} :
              /\ sink' = r.sink
              /\ pc' = IF r.ok THEN "open" ELSE "panic"
              /\ log' = Append(log, EvStart(time))
    /\ UNCHANGED <<descVars, nl, convVars>>

SinkOut ==
    /\ pc = "open"
    /\ Len(log) < MaxEvents
    /\ \E data \in SinkPayloads :
          \E r \in {Collector_out(sink, data)} :
              /\ sink' = r.sink
              /\ pc' = IF r.ok THEN "open" ELSE "panic"
              /\ log' = Append(log, EvOut(data))
    /\ UNCHANGED <<descVars, nl, convVars>>

SinkEnd ==
    /\ pc = "open"
    /\ Len(log) < MaxEvents
    /\ \E duration \in Durations :
          \E r \in {Collector_end(sink, duration)} :
              /\ sink' = r.sink
              /\ pc' = IF r.ok THEN "idle" ELSE "panic"
              /\ log' = Append(log, EvEnd(duration))
    /\ UNCHANGED <<descVars, nl, convVars>>

NextSink == SinkStart \/ SinkOut \/ SinkEnd

SpecSink == InitSink /\ [][NextSink]_vars

(***************************************************************************)
(* Specification SpecMalformed: the sinks of SpecSink, given also samples  *)
(* whose attributes parse cannot read.                                     *)
(***************************************************************************)
MalformedPayloads ==
    { as_bytes("InetDiagMsg", SampleBases[1]) \o nlattr_as_bytes(2, INET_DIAG_CONG),
      as_bytes("InetDiagMsg", SampleBases[1]) \o CongAttr("reno")
          \o nlattr_as_bytes(12, INET_DIAG_CONG) \o <<0, 0, 0, 0>>,
      as_bytes("InetDiagMsg", SampleBases[2]) \o KernelAttr(INET_DIAG_CONG, <<255, 254, 0>>),
      as_bytes("InetDiagMsg", SampleBases[2]) \o KernelAttr(INET_DIAG_CONG, StrBytes(<<"bbr">>)) }

MalformedOut ==
    /\ pc = "open"
    /\ Len(log) < MaxEvents
    /\ \E data \in MalformedPayloads \cup SinkPayloads :
          \E r \in {Collector_out(sink, data)} :
              /\ sink' = r.sink
              /\ pc' = IF r.ok THEN "open" ELSE "panic"
              /\ log' = Append(log, EvOut(data))
    /\ UNCHANGED <<descVars, nl, convVars>>

NextMalformed == SinkStart \/ MalformedOut \/ SinkEnd

SpecMalformed == InitSink /\ [][NextMalformed]_vars

(***************************************************************************)
(* Specification SpecConvert: a sink of one format writes the events it    *)
(* receives, a sink of the target format receives the same events          *)
(* directly; then tcpdiag --convert reads what the first sink wrote and    *)
(* feeds a second sink of the target format.                               *)
(***************************************************************************)
MaxConvEvents == 4  \* most events delivered to the first sink

InitConvert ==
    /\ pc = "idle"
    /\ \E a \in Formats, b \in Formats :
          /\ sink = Collector_new(a)
          /\ direct = Collector_new(b)
          /\ down = Collector_new(b)
    /\ log = <<>>
    /\ dlog = <<>>
    /\ nl = NoNetlink
    /\ arg = <<>>
    /\ ret = <<>>
    /\ rd = NoReader
    /\ desc = Atom
    /\ cwriter = NoWriter
    /\ header = NoHeader

\* the event e goes to the first sink and to the direct sink
Feed(e, next) ==
    /\ Len(log) < MaxConvEvents
    /\ \E r \in {Collector_call(sink, e)}, d \in {Collector_call(direct, e)} :
          /\ sink' = r.sink
          /\ direct' = d.sink
          /\ pc' = IF r.ok /\ d.ok THEN next ELSE "panic"
    /\ log' = Append(log, e)
    /\ UNCHANGED <<descVars, nl, rd, down, dlog>>

ConvStart == pc = "idle" /\ \E time \in StartTimes : Feed(EvStart(time), "open")
ConvOut == pc = "open" /\ \E data \in SinkPayloads : Feed(EvOut(data), "open")
ConvEnd == pc = "open" /\ \E duration \in Durations : Feed(EvEnd(duration), "idle")

\* main: format detection, and the reader up to its loop
ConvOpen ==
    /\ pc = "idle"
    /\ \E kind \in {detect(fill_buf(sink))} :
       \E t \in {reader_open(reader_new(kind, sink.writer))} :
           /\ rd' = t.rd
           /\ pc' = IF kind = "empty" THEN "done"
                    ELSE IF t.ok THEN "reading" ELSE "rpanic"
    /\ UNCHANGED <<descVars, nl, sinkVars, direct, down, dlog>>

\* one turn of the reader's loop, with its calls on the downstream sink
ConvTurn ==
    /\ pc = "reading"
    /\ rd.input # <<>>
    /\ \E t \in {reader_turn(rd)} :
       \E r \in {deliver(down, t.calls, 1)} :
           /\ rd' = t.rd
           /\ down' = r.sink
           /\ dlog' = dlog \o SubSeq(t.calls, 1, r.n)
           /\ pc' = IF t.ok /\ r.ok THEN "reading" ELSE "rpanic"
    /\ UNCHANGED <<descVars, nl, sinkVars, direct>>

\* the reader finds the end of its input and returns
ConvEof ==
    /\ pc = "reading"
    /\ rd.input = <<>>
    /\ pc' = "done"
    /\ UNCHANGED <<descVars, nl, sinkVars, convVars>>

NextConvert == ConvStart \/ ConvOut \/ ConvEnd \/ ConvOpen \/ ConvTurn \/ ConvEof

SpecConvert == InitConvert /\ [][NextConvert]_vars
(***************************************************************************)
(* Specification SpecBinary: a binary sink receives events in any order,   *)
(* samples and payloads that are no samples among them; read_binary then   *)
(* reads what it wrote, as written or with a record of type 3 before or    *)
(* after it, and feeds a second binary sink.  arg tells where the record   *)
(* of type 3 is.                                                           *)
(***************************************************************************)
BinaryPayloads ==
    { as_bytes("InetDiagMsg", SampleBases[2]) \o CongAttr("cubic"), <<1, 2, 3>> }
ForeignRecord == nlattr_as_bytes(5, 3) \o <<9>>

InitBinary ==
    /\ pc = "idle"
    /\ sink = Collector_new("binary")
    /\ direct = NoSink
    /\ down = Collector_new("binary")
    /\ log = <<>>
    /\ dlog = <<>>
    /\ nl = NoNetlink
    /\ rd = NoReader
    /\ desc = Atom
    /\ cwriter = NoWriter
    /\ header = NoHeader
    /\ arg = "none"
    /\ ret = <<>>

\* a call of start, out or end on the sink
BinaryFeed ==
    /\ pc = "idle"
    /\ Len(log) < MaxConvEvents
    /\ \E e \in {EvStart(time) : time \in StartTimes}
                 \cup {EvOut(data) : data \in BinaryPayloads}
                 \cup {EvEnd(duration) : duration \in Durations} :
          \E r \in {Collector_call(sink, e)} :
              /\ sink' = r.sink
              /\ pc' = IF r.ok THEN "idle" ELSE "panic"
              /\ log' = Append(log, e)
    /\ UNCHANGED <<descVars, nl, convVars>>

\* read_binary before its loop
BinaryOpen ==
    /\ pc = "idle"
    /\ \E where \in {"none", "front", "back"} :
          /\ arg' = where
          /\ rd' = reader_new("binary",
                              CASE where = "none"  -> sink.writer
                                [] where = "front" -> ForeignRecord \o sink.writer
                                [] where = "back"  -> sink.writer \o ForeignRecord)
    /\ pc' = "reading"
    /\ UNCHANGED <<desc, cwriter, header, ret, nl, sinkVars, direct, down, dlog>>

NextBinary == BinaryFeed \/ BinaryOpen \/ ConvTurn \/ ConvEof

SpecBinary == InitBinary /\ [][NextBinary]_vars

(***************************************************************************)
(* Specification SpecWire: new and then get of a wire wrapper: U16BE on    *)
(* every u16, U64NE and NlU64 on numbers below 2^31 and, limb by limb, on  *)
(* values of the whole range of u64.  arg is the wrapper and the value,    *)
(* ret what new stored and what get returned.                              *)
(***************************************************************************)
SmallValues == {0, 1, 255, 256, 65535, 65536, 16777216, 2147483647}
Limbs == {0, 1, 255, 256, 32768, U16_MAX}
WideValues == {<<a, b, c, d>> : a \in Limbs, b \in Limbs, c \in Limbs, d \in Limbs}
Wrapped ==
    [wrapper : {"U16BE"}, val : 0..U16_MAX]
        \cup [wrapper : {"U64NE", "NlU64"}, val : SmallValues]
        \cup [wrapper : {"U64NE wide", "NlU64 wide"}, val : WideValues]

Wrapper_new(wrapper, val) ==
    CASE wrapper = "U16BE" -> U16BE_new(val)
      [] wrapper = "U64NE" -> U64NE_new(val)
      [] wrapper = "NlU64" -> NlU64_new(val)
      [] wrapper = "U64NE wide" -> U64NE_new_wide(val)
      [] wrapper = "NlU64 wide" -> NlU64_new_wide(val)
Wrapper_get(wrapper, s) ==
    CASE wrapper = "U16BE" -> U16BE_get(s)
      [] wrapper = "U64NE" -> U64NE_get(s)
      [] wrapper = "NlU64" -> NlU64_get(s)
      [] wrapper = "U64NE wide" -> U64NE_get_wide(s)
      [] wrapper = "NlU64 wide" -> NlU64_get_wide(s)

InitWire ==
    /\ pc = "value"
    /\ arg \in Wrapped
    /\ ret = [stored |-> <<>>, got |-> <<>>]
    /\ desc = Atom
    /\ cwriter = NoWriter
    /\ header = NoHeader
    /\ sink = NoSink
    /\ log = <<>>
    /\ direct = NoSink
    /\ rd = NoReader
    /\ down = NoSink
    /\ dlog = <<>>
    /\ nl = NoNetlink

WireNew ==
    /\ pc = "value"
    /\ ret' = [ret EXCEPT !.stored = Wrapper_new(arg.wrapper, arg.val)]
    /\ pc' = "stored"
    /\ UNCHANGED <<desc, cwriter, header, arg, sinkVars, convVars, nl>>

WireGet ==
    /\ pc = "stored"
    /\ ret' = [ret EXCEPT !.got = <<Wrapper_get(arg.wrapper, ret.stored)>>]
    /\ pc' = "got"
    /\ UNCHANGED <<desc, cwriter, header, arg, sinkVars, convVars, nl>>

NextWire == WireNew \/ WireGet

SpecWire == InitWire /\ [][NextWire]_vars

(***************************************************************************)
(* Specification SpecClock: a Timespec that starts normalised and has up   *)
(* to MaxAdds durations added with +=.  arg is the start, ret the value,   *)
(* dlog the durations added, in nanoseconds.                               *)
(***************************************************************************)
MaxAdds == 3
ClockStarts ==
    {Timespec(sec, nsec) : sec \in {0, 5}, nsec \in {0, 1, 500000000, 999999999}}
ClockDurations ==
    {0, 1, 500000000, 999999999, 1000000000, 1999999999, 2000000001}

InitClock ==
    /\ pc = "clock"
    /\ arg \in ClockStarts
    /\ ret = arg
    /\ dlog = <<>>
    /\ desc = Atom
    /\ cwriter = NoWriter
    /\ header = NoHeader
    /\ sink = NoSink
    /\ log = <<>>
    /\ direct = NoSink
    /\ rd = NoReader
    /\ down = NoSink
    /\ nl = NoNetlink

\* self += rhs
ClockAdd ==
    /\ pc = "clock"
    /\ Len(dlog) < MaxAdds
    /\ \E rhs \in ClockDurations :
          /\ ret' = add_assign(ret, rhs)
          /\ dlog' = Append(dlog, rhs)
    /\ UNCHANGED <<pc, desc, cwriter, header, arg, sinkVars, direct, rd, down, nl>>

NextClock == ClockAdd

SpecClock == InitClock /\ [][NextClock]_vars

(***************************************************************************)
(* Specification SpecJson: read_json on the lines a JSON sink wrote, with  *)
(* one further line among them that is no sweep object: an empty line, the *)
(* beginning of an object, or bytes that are not UTF-8.                    *)
(***************************************************************************)
OtherLines ==
    { <<lit("\n")>>,
      <<lit("{\"time\":"), JNum(5), lit("\n")>>,
      <<raw(<<255>>), lit("\n")>> }

\* the texts with a line of OtherLines after one of the lines of text
WithOtherLine(text) ==
    {Take(text, i) \o line \o Drop(text, i) :
        i \in {j \in DOMAIN text : is_lit(text[j], "\n")}, line \in OtherLines}

InitJson ==
    /\ pc = "idle"
    /\ sink = Collector_new("json")
    /\ direct = Collector_new("binary")
    /\ down = Collector_new("binary")
    /\ log = <<>>
    /\ dlog = <<>>
    /\ nl = NoNetlink
    /\ rd = NoReader
    /\ desc = Atom
    /\ cwriter = NoWriter
    /\ header = NoHeader
    /\ arg = <<>>
    /\ ret = <<>>

\* main: the reader up to its loop, on the text with or without the line
JsonOpen ==
    /\ pc = "idle"
    /\ \E input \in {sink.writer} \cup WithOtherLine(sink.writer) :
       \E t \in {reader_open(reader_new(detect(fill_buf(sink)), input))} :
           /\ rd' = t.rd
           /\ pc' = IF t.rd.kind = "empty" THEN "done"
                    ELSE IF t.ok THEN "reading" ELSE "rpanic"
    /\ UNCHANGED <<descVars, nl, sinkVars, direct, down, dlog>>

NextJson == ConvStart \/ ConvOut \/ ConvEnd \/ JsonOpen \/ ConvTurn \/ ConvEof

SpecJson == InitJson /\ [][NextJson]_vars

(***************************************************************************)
(* Specification SpecDetect: the match of main on the bytes fill_buf       *)
(* returned, for every sequence of at most MaxPeek bytes of PeekBytes:     *)
(* the bytes the patterns name, and bytes next to them.                    *)
(***************************************************************************)
MaxPeek == 4
PeekBytes == {0, 1, 34, 35, 65, 97, 122, 123}
Peeks == UNION {[1..n -> PeekBytes] : n \in 0..MaxPeek}

InitDetect ==
    /\ pc = "peek"
    /\ arg \in Peeks
    /\ ret = <<>>
    /\ desc = Atom
    /\ cwriter = NoWriter
    /\ header = NoHeader
    /\ sink = NoSink
    /\ log = <<>>
    /\ direct = NoSink
    /\ rd = NoReader
    /\ down = NoSink
    /\ dlog = <<>>
    /\ nl = NoNetlink

\* the match: the reader called, or the panic, or nothing
Detect ==
    /\ pc = "peek"
    /\ ret' = detect(arg)
    /\ pc' = "routed"
    /\ UNCHANGED <<desc, cwriter, header, sinkVars, convVars, nl, arg>>

NextDetect == Detect

SpecDetect == InitDetect /\ [][NextDetect]_vars

(***************************************************************************)
(* Specification SpecNetlink: read_netlink on a netlink socket whose       *)
(* kernel side answers every dump request with receive buffers of          *)
(* messages.  pc is the position in the function: "loop" at the top of the *)
(* loop, "send" before a family's request, "recv" before recv_from, "end"  *)
(* after the last family's pass, "sleep" before sleep_until.               *)
(***************************************************************************)
MaxSweeps == 2      \* most turns of the loop, the largest count
MaxRecvs == 1       \* most receive buffers of a pass without DONE or ERROR
MaxInterrupts == 2  \* most failing sleep calls of one sleep_until

NLMSG_ERROR == 2
NLMSG_DONE == 3
SOCK_DIAG_BY_FAMILY == 20

\* a message as the kernel lays it out: struct nlmsghdr and the payload
nlmsg_as_bytes(nlmsg_type, data) ==
    as_bytes("nlmsghdr",
             [nlmsg_len |-> size_of("nlmsghdr") + Len(data), nlmsg_type |-> nlmsg_type,
              nlmsg_flags |-> 0, nlmsg_seq |-> 0, nlmsg_pid |-> 0]) \o data

\* NlmsgIter::next on bytes that are not empty, off bytes into the buffer:
\* the header by ref_from_prefix (at an address aligned to four, the buffer
\* itself being aligned), the message by split_at(nlmsg_len) and
\* ref_from_bytes; ok = FALSE when an unwrap or split_at panics
NlmsgIter_split(it, hdr, size) ==
    IF \/ ~hdr.ok \/ it.off % 4 # 0
       \/ hdr.v.nlmsg_len > Len(it.bytes) \/ hdr.v.nlmsg_len < size
    THEN [ok |-> FALSE, hdr |-> <<>>, data |-> <<>>, it |-> it]
    ELSE [ok |-> TRUE, hdr |-> hdr.v,
          data |-> SubSeq(it.bytes, size + 1, hdr.v.nlmsg_len),
          it |-> [bytes |-> Drop(it.bytes, hdr.v.nlmsg_len),
                  off |-> it.off + hdr.v.nlmsg_len]]
NlmsgIter_next(it) ==
    NlmsgIter_split(it, ref_from_prefix("nlmsghdr", it.bytes), size_of("nlmsghdr"))

\* the for loop over the messages of one receive buffer: the calls on the
\* sink, and whether a DONE or ERROR message left the pass (break 'a)
RECURSIVE for_nlmsg(_, _, _)
\* after writer.out: r is what the call made of the sink
for_nlmsg_out(r, nlmsg, calls) ==
    IF r.ok THEN for_nlmsg(r.sink, nlmsg.it, Append(calls, EvOut(nlmsg.data)))
    ELSE [ok |-> FALSE, done |-> FALSE, sink |-> r.sink,
          calls |-> Append(calls, EvOut(nlmsg.data))]
\* the body of the loop for the message the iterator gave
for_nlmsg_body_no_break(writer, nlmsg, calls) ==
    IF ~nlmsg.ok
    THEN [ok |-> FALSE, done |-> FALSE, sink |-> writer, calls |-> calls]
    ELSE IF nlmsg.hdr.nlmsg_type = SOCK_DIAG_BY_FAMILY
    THEN for_nlmsg_out(Collector_out(writer, nlmsg.data), nlmsg, calls)
    ELSE for_nlmsg(writer, nlmsg.it, calls)
for_nlmsg_body(writer, nlmsg, calls) ==
    IF ~nlmsg.ok
    THEN [ok |-> FALSE, done |-> FALSE, sink |-> writer, calls |-> calls]
    ELSE IF nlmsg.hdr.nlmsg_type = NLMSG_DONE \/ nlmsg.hdr.nlmsg_type = NLMSG_ERROR
    THEN [ok |-> TRUE, done |-> TRUE, sink |-> writer, calls |-> calls]
    ELSE IF nlmsg.hdr.nlmsg_type = SOCK_DIAG_BY_FAMILY
    THEN for_nlmsg_out(Collector_out(writer, nlmsg.data), nlmsg, calls)
    ELSE for_nlmsg(writer, nlmsg.it, calls)
for_nlmsg(writer, it, calls) ==
    IF it.bytes = <<>> THEN [ok |-> TRUE, done |-> FALSE, sink |-> writer, calls |-> calls]
    ELSE for_nlmsg_body(writer, NlmsgIter_next(it), calls)

\* both families whatever the command line
address_families_both(args) == <<AF_INET, AF_INET6>>
\* the families of a sweep
address_families(args) ==
    IF args.inet4 THEN <<AF_INET>>
    ELSE IF args.inet6 THEN <<AF_INET6>>
    ELSE <<AF_INET, AF_INET6>>

\* where a pass that DONE or ERROR ended leaves the for loop over the
\* families: at the next family's request, or after the loop at writer.end
\* when this restarts the loop over the families' end
pass_done_skips_end(family, families) ==
    IF family < Len(families) THEN "send" ELSE "loop"
pass_done(family, families) ==
    IF family < Len(families) THEN "send" ELSE "end"

\* the command lines clap accepts: -4 and -6 conflict, -c requires -p
Periods == {1000000}
NetlinkArgs ==
    {a \in [inet4 : BOOLEAN, inet6 : BOOLEAN,
            period : {None} \cup {Some(p) : p \in Periods},
            count : {None} \cup {Some(c) : c \in 1..MaxSweeps}] :
        /\ ~(a.inet4 /\ a.inet6)
        /\ is_some(a.count) => is_some(a.period)}

\* what the kernel can put into one receive buffer in answer to a dump
\* request of a family: samples of the family, messages of another type,
\* and DONE or ERROR, possibly before further messages
KernelSample(family) ==
    IF family = AF_INET THEN as_bytes("InetDiagMsg", SampleBases[1])
    ELSE as_bytes("InetDiagMsg", SampleBases[2]) \o CongAttr("cubic")
Replies(family) ==
    LET sample == nlmsg_as_bytes(SOCK_DIAG_BY_FAMILY, KernelSample(family))
        other == nlmsg_as_bytes(SOCK_DIAG_BY_FAMILY + 1, <<0, 0, 0, 0>>)
        done == nlmsg_as_bytes(NLMSG_DONE, <<0, 0, 0, 0>>)
        error == nlmsg_as_bytes(NLMSG_ERROR, ZeroBytes(4 + size_of("nlmsghdr")))
    IN  [more |-> {other \o sample},
         last |-> {sample \o done, done \o sample, error}]

\* what SystemTime::now() and Timespec::now() return at the start
Now == {2999}
MonotonicStart == Timespec(0, 999999000)

\* surroundings of a run: every sweep is short and no signal arrives
\* (QuietEnv), sweeps can take longer than the period (SlowEnv), and the
\* sleep call can fail (SignalEnv)
QuietEnv == [elapsed |-> {7000}, rets |-> {0}, errnos |-> {0}]
SlowEnv == [elapsed |-> {7000, 2500000}, rets |-> {0}, errnos |-> {0}]
SignalEnv == [elapsed |-> {7000}, rets |-> {0, EINTR, EINVAL}, errnos |-> {0, EINTR}]

InitRun(argset, env) ==
    /\ pc = "loop"
    /\ sink = Collector_new("binary")
    /\ \E args \in argset :
          nl = [NoNetlink EXCEPT
                   !.args = args,
                   !.count = IF is_some(args.count) THEN args.count[1] ELSE 0,
                   !.period_start = MonotonicStart,
                   !.clock = MonotonicStart,
                   !.env = env]
    /\ log = <<>>
    /\ desc = Atom
    /\ cwriter = NoWriter
    /\ header = NoHeader
    /\ direct = NoSink
    /\ rd = NoReader
    /\ down = NoSink
    /\ dlog = <<>>
    /\ arg = <<>>
    /\ ret = <<>>

InitNetlink == InitRun(NetlinkArgs, QuietEnv)

\* the top of the loop: the clocks are read and the sweep starts
NlStart ==
    /\ pc = "loop"
    /\ nl.sweeps < MaxSweeps
    /\ \E time \in Now :
          \E r \in {Collector_start(sink, time)} :
              /\ sink' = r.sink
              /\ log' = Append(log, EvStart(time))
              /\ pc' = IF r.ok THEN "send" ELSE "panic"
    /\ nl' = [nl EXCEPT !.families = address_families(nl.args), !.family = 1,
                        !.requests = <<>>, !.sweeps = @ + 1]
    /\ UNCHANGED <<descVars, convVars>>

\* send_request for the family in turn
NlSend ==
    /\ pc = "send"
    /\ nl' = [nl EXCEPT !.requests = Append(@, nl.families[nl.family]), !.recvs = 0]
    /\ pc' = "recv"
    /\ UNCHANGED <<descVars, sinkVars, convVars>>

\* recv_from and the for loop over the messages received
NlRecv ==
    /\ pc = "recv"
    /\ \E replies \in {Replies(nl.families[nl.family])} :
       \E buf \in replies.last \cup (IF nl.recvs < MaxRecvs THEN replies.more ELSE {}) :
       \E r \in {for_nlmsg(sink, [bytes |-> buf, off |-> 0], <<>>)} :
              /\ sink' = r.sink
              /\ log' = log \o r.calls
              /\ pc' = IF ~r.ok THEN "panic"
                       ELSE IF r.done THEN pass_done(nl.family, nl.families)
                       ELSE "recv"
              /\ nl' = IF r.ok /\ r.done /\ nl.family < Len(nl.families)
                       THEN [nl EXCEPT !.family = @ + 1, !.buf = buf]
                       ELSE [nl EXCEPT !.recvs = @ + 1, !.buf = buf]
    /\ UNCHANGED <<descVars, convVars>>

\* the count after a sweep, and whether it ended the loop
count_down(count) == IF count # 0 THEN count - 1 ELSE 0
never_counted(count) == FALSE
counted(count) == count # 0 /\ count_down(count) = 0

\* what follows writer.end: the loop is left after the last counted sweep
\* and without a period, else the deadline moves on by the period
after_end(count, period) ==
    IF counted(count) \/ ~is_some(period) THEN "return" ELSE "sleep"

\* writer.end, the count, and the deadline of the next sweep; the sweep
\* has taken the duration, and errno holds what earlier calls left in it
NlEnd ==
    /\ pc = "end"
    /\ \E duration \in nl.env.elapsed, errno \in nl.env.errnos :
          \E r \in {Collector_end(sink, duration)} :
              /\ sink' = r.sink
              /\ log' = Append(log, EvEnd(duration))
              /\ pc' = IF ~r.ok THEN "panic" ELSE after_end(nl.count, nl.args.period)
              /\ nl' = [nl EXCEPT
                          !.count = count_down(nl.count),
                          !.clock = add_assign(@, duration),
                          !.errno = errno,
                          !.period_start =
                              IF after_end(nl.count, nl.args.period) = "sleep"
                              THEN add_assign(@, from_secs_f64(nl.args.period[1]))
                              ELSE @]
    /\ UNCHANGED <<descVars, convVars>>

\* one turn of the loop of sleep_until: the call, and the match on its
\* result; a signal interrupts the call only before the deadline
NlSleep ==
    /\ pc = "sleep"
    /\ \E rc \in nl.env.rets :
          /\ rc # 0 => nl.calls < MaxInterrupts
          /\ rc = EINTR => Timespec_lt(nl.clock, nl.period_start)
          /\ \E m \in {sleep_until_match(rc, nl.errno)} :
                /\ pc' = IF m = "break" THEN "loop"
                         ELSE IF m = "continue" THEN "sleep"
                         ELSE "panic"
                /\ nl' = [nl EXCEPT
                            !.clock = clock_nanosleep(@, nl.period_start, rc),
                            !.ret = rc,
                            !.calls = IF m = "break" THEN 0 ELSE @ + 1]
    /\ UNCHANGED <<descVars, sinkVars, convVars>>

NextNetlink == NlStart \/ NlSend \/ NlRecv \/ NlEnd \/ NlSleep

SpecNetlink == InitNetlink /\ [][NextNetlink]_vars

\* the states in which the function can take a step: it stops at its
\* return and at a panic, and the model stops before sweep MaxSweeps + 1
Runnable ==
    \/ pc = "loop" /\ nl.sweeps < MaxSweeps
    \/ pc \in {"send", "recv", "end"}
    \/ pc = "sleep" /\ 0 \in nl.env.rets

\* the function is one thread that runs on as long as it can take a step:
\* weak fairness of its steps, written with the states that enable them
Fairness == []<>(~Runnable) \/ []<><<NextNetlink>>_vars

(***************************************************************************)
(* Specification SpecLoopFair: read_netlink under fairness, for the        *)
(* command lines with -4 and the ones without a period.                    *)
(***************************************************************************)
LoopArgs == {a \in NetlinkArgs : a.inet4 \/ ~is_some(a.period)}

InitLoop == InitRun(LoopArgs, QuietEnv)

NextLoop == NlStart \/ NlSend \/ NlRecv \/ NlEnd \/ NlSleep

SpecLoopFair == InitLoop /\ [][NextLoop]_vars /\ Fairness

(***************************************************************************)
(* Specification SpecPace: read_netlink with a period, on one family, when *)
(* a sweep can take longer than the period.                                *)
(***************************************************************************)
PacedArgs == {a \in NetlinkArgs : a.inet4 /\ is_some(a.period)}

InitPace == InitRun(PacedArgs, SlowEnv)

NextPace == NlStart \/ NlSend \/ NlRecv \/ NlEnd \/ NlSleep

SpecPace == InitPace /\ [][NextPace]_vars

(***************************************************************************)
(* Specification SpecSleep: read_netlink with a period when the sleep call *)
(* can be interrupted by a signal or fail, and errno holds 0 or EINTR from *)
(* earlier calls of the thread.                                            *)
(***************************************************************************)
InitSleep == InitRun(PacedArgs, SignalEnv)

NextSleep == NlStart \/ NlSend \/ NlRecv \/ NlEnd \/ NlSleep

SpecSleep == InitSleep /\ [][NextSleep]_vars

(***************************************************************************)
(* Properties of the sinks (SpecSink).  The events a sink received are in  *)
(* log; what it wrote is in sink.writer.                                   *)
(***************************************************************************)
PositionsOf(events, ev) ==
    SelectSeq([i \in 1..Len(events) |-> i], LAMBDA i : events[i].ev = ev)

\* the completed sweeps of an event log: time, number of samples, duration
Sweeps(events) ==
    LET starts == PositionsOf(events, "start")
        ends == PositionsOf(events, "end")
    IN  [j \in 1..Len(ends) |->
            [time |-> events[starts[j]].time,
             k |-> ends[j] - starts[j] - 1,
             duration |-> events[ends[j]].duration]] \o <<>>

RowsOf(sweep) == IF sweep.k = 0 THEN 1 ELSE sweep.k
\* the rows of the sweeps before sweep j
RECURSIVE RowsBefore(_, _)
RowsBefore(sweeps, j) ==
    IF j = 1 THEN 0 ELSE RowsBefore(sweeps, j - 1) + RowsOf(sweeps[j - 1])

\* the lines of tabular output without their "\n", and the fields of the
\* data rows (the lines after the header line)
LinesOf(writer) ==
    LET lines == split_tokens(writer, "\n") IN SubSeq(lines, 1, Len(lines) - 1)
DataRows(writer) ==
    LET lines == LinesOf(writer)
    IN  [i \in 1..(Len(lines) - 1) |-> split(lines[i + 1], " ")] \o <<>>
HeaderNames(writer) ==
    SelectSeq(split(LinesOf(writer)[1], " "), LAMBDA name : name # <<>>)
Last(fields) == fields[Len(fields)]
ExtraColumns == Desc_len(DESC("InetDiagMsgExtra"))
TabularIdle == sink.kind = "csv" /\ pc = "idle"

\* C4: every data row the tabular sink wrote has as many fields between
\* single spaces as the header line has column names
C4_RowFieldsMatchHeader ==
    TabularIdle =>
        LET rows == DataRows(sink.writer)
        IN  \A i \in DOMAIN rows : Len(rows[i]) = Len(HeaderNames(sink.writer))

\* C5: after complete sweeps the tabular sink has written max(k, 1) rows for
\* a sweep of k samples, each starting with the sweep's time; the one row of
\* a sweep without samples is the time, one "_" per column of the sample,
\* and the duration
C5_RowsPerSweep ==
    TabularIdle =>
        LET rows == DataRows(sink.writer)
            sweeps == Sweeps(log)
        IN  /\ Len(rows) = RowsBefore(sweeps, Len(sweeps) + 1)
            /\ \A j \in DOMAIN sweeps :
                  /\ \A r \in 1..RowsOf(sweeps[j]) :
                        rows[RowsBefore(sweeps, j) + r][1] = itoa(as_micros(sweeps[j].time))
                  /\ sweeps[j].k = 0 =>
                        rows[RowsBefore(sweeps, j) + 1] =
                            <<itoa(as_micros(sweeps[j].time))>>
                                \o [i \in 1..ExtraColumns |-> <<"_">>]
                                \o <<itoa(as_micros(sweeps[j].duration))>>

\* a sweep without samples and a sweep with samples have been written
C5_Witness ==
    /\ TabularIdle
    /\ \E j, l \in DOMAIN Sweeps(log) : Sweeps(log)[j].k = 0 /\ Sweeps(log)[l].k >= 1

\* C6 as stated: the last field of every row of a sweep is the sweep's
\* duration
C6_DurationOnEveryRow ==
    TabularIdle =>
        LET rows == DataRows(sink.writer)
            sweeps == Sweeps(log)
        IN  \A j \in DOMAIN sweeps : \A r \in 1..RowsOf(sweeps[j]) :
                Last(rows[RowsBefore(sweeps, j) + r]) = itoa(as_micros(sweeps[j].duration))

\* C6 amended: the last field of the last row of a sweep is the sweep's
\* duration, the last field of every earlier row of the sweep is "_"
C6_DurationOnLastRow ==
    TabularIdle =>
        LET rows == DataRows(sink.writer)
            sweeps == Sweeps(log)
        IN  \A j \in DOMAIN sweeps : \A r \in 1..RowsOf(sweeps[j]) :
                Last(rows[RowsBefore(sweeps, j) + r]) =
                    IF r = RowsOf(sweeps[j]) THEN itoa(as_micros(sweeps[j].duration))
                    ELSE <<"_">>

\* a sweep of two or more samples has been written, its first sample with
\* every attribute present
C6_Witness ==
    /\ TabularIdle
    /\ \E i \in 1..(Len(log) - 3) :
          /\ log[i].ev = "start" /\ log[i + 1].ev = "out" /\ log[i + 2].ev = "out"
          /\ is_some(parse(log[i + 1].data).v.bbr3)

\* the records of binary output: nla_len, nla_type and the nla_len - 4 bytes
\* after the header; bytes that are no record are a record of type -1
RECURSIVE RecordsOf(_)
RecordsOf(bytes) ==
    IF bytes = <<>> THEN <<>>
    ELSE IF Len(bytes) < 4 THEN <<[len |-> 0, type |-> -1, body |-> bytes]>>
    ELSE LET len == FromLE(Take(bytes, 2))
             type == FromLE(SubSeq(bytes, 3, 4))
         IN  IF len < 4 \/ len > Len(bytes) THEN <<[len |-> len, type |-> -1, body |-> bytes]>>
             ELSE <<[len |-> len, type |-> type, body |-> SubSeq(bytes, 5, len)]>>
                      \o RecordsOf(Drop(bytes, len))

\* C7: the binary sink's output is one record per event, in the order of the
\* events and with nothing between: type 1 and length 12 for start, type 0
\* and length 4 + |payload| for out, type 2 and length 8 for end
C7_OneRecordPerEvent ==
    (sink.kind = "binary" /\ pc # "panic") =>
        LET records == RecordsOf(sink.writer)
        IN  /\ Len(records) = Len(log)
            /\ \A i \in DOMAIN log :
                  CASE log[i].ev = "start" ->
                          /\ records[i].type = 1 /\ records[i].len = 12
                          /\ records[i].body = LE(8, as_micros(log[i].time))
                    [] log[i].ev = "out" ->
                          /\ records[i].type = 0 /\ records[i].len = 4 + Len(log[i].data)
                          /\ records[i].body = log[i].data
                    [] log[i].ev = "end" ->
                          /\ records[i].type = 2 /\ records[i].len = 8
                          /\ records[i].body = LE(4, as_micros(log[i].duration))

\* the binary sink has written a sweep without samples and a sample
C7_Witness ==
    /\ sink.kind = "binary" /\ pc = "idle"
    /\ \E i \in 1..(Len(log) - 1) : log[i].ev = "start" /\ log[i + 1].ev = "end"
    /\ \E i \in DOMAIN log : log[i].ev = "out"
    /\ Len(RecordsOf(sink.writer)) = Len(log)

\* the text of one event in the line of its sweep: a sample is preceded by
\* "," exactly when the event before it is a sample too
JsonItems(events, i) ==
    CASE events[i].ev = "start" ->
            <<lit("{\"time\":"), JNum(as_micros(events[i].time)), lit(",\"samples\":[")>>
      [] events[i].ev = "out" ->
            (IF events[i - 1].ev = "out" THEN <<lit(",")>> ELSE <<>>)
                \o <<json_ser("InetDiagMsgExtra", parse(events[i].data).v, 0).j>>
      [] events[i].ev = "end" ->
            <<lit("],\"duration\":"), JNum(as_micros(events[i].duration)), lit("}"), lit("\n")>>

\* C8: the JSON sink's output is, sweep after sweep, the line
\* {"time":t,"samples":[s1,...,sk],"duration":d} and "\n", with a comma
\* between two samples and nowhere else, whatever the sweeps before held
C8_OneLinePerSweep ==
    (sink.kind = "json" /\ pc # "panic") =>
        sink.writer = Flatten([i \in DOMAIN log |-> JsonItems(log, i)])

\* the JSON sink has written the first sample of a sweep after a sweep with
\* samples
C8_Witness ==
    /\ sink.kind = "json" /\ pc = "open"
    /\ \E i \in 1..(Len(log) - 3) :
          /\ log[i].ev = "out" /\ log[i + 1].ev = "end"
          /\ log[i + 2].ev = "start" /\ log[i + 3].ev = "out"
(***************************************************************************)
(* Properties of conversion (SpecConvert).  The events the first sink      *)
(* received are in log, the calls the reader made on the downstream sink   *)
(* in dlog.                                                                *)
(***************************************************************************)
\* an event as tabular text can carry it: its call, and its time or its
\* duration in microseconds
CallOf(e) == [ev |-> e.ev, time |-> as_micros(e.time), duration |-> as_micros(e.duration)]
CallsOf(events) == [i \in 1..Len(events) |-> CallOf(events[i])] \o <<>>

\* C2: when the tabular reader has read all that the tabular sink wrote for
\* complete sweeps, the calls it made are the calls the sink received: per
\* sweep start(t), one out per sample, end(d)
C2_ReaderPreservesEvents ==
    (sink.kind = "csv" /\ pc = "done") => CallsOf(dlog) = CallsOf(log)

\* C3: reading what a sink wrote never aborts, and at the end of the input
\* the downstream sink has written what a sink of its format writes when it
\* receives the original events
C3_RoundTripPure ==
    /\ pc # "rpanic"
    /\ pc = "done" => down.writer = direct.writer

(***************************************************************************)
(* Specification SpecOlder: tcpdiag --convert reads tabular text whose     *)
(* header has no bbr3.* column: what the tabular sink writes for samples   *)
(* without BBR3 information, with the columns of bbr3 taken out of the     *)
(* header line and of every row.                                           *)
(***************************************************************************)
\* the positions of the bbr3.* columns in CSV_HEADER: bbr3 is the last field
\* of the sample, the sample follows the column time
Bbr3Columns ==
    (1 + ExtraColumns - Desc_len(DESC("Bbr3Info")) + 1)..(1 + ExtraColumns)

without_columns(fields, columns) ==
    LET keep == SelectSeq([i \in 1..Len(fields) |-> i], LAMBDA i : i \notin columns)
    IN  [k \in 1..Len(keep) |-> fields[keep[k]]] \o <<>>
join(fields, sep) ==
    Flatten([i \in 1..Len(fields) |-> (IF i = 1 THEN <<>> ELSE <<sep>>) \o fields[i]])
OlderText(text) ==
    LET lines == read_lines(text)
    IN  Flatten([i \in 1..Len(lines) |->
                    join(without_columns(split(strip_suffix(lines[i]), " "), Bbr3Columns), " ")
                        \o tokens("\n")])

\* samples without BBR3 information
OlderPayloads ==
    { as_bytes("InetDiagMsg", SampleBases[1]),
      as_bytes("InetDiagMsg", SampleBases[1]) \o BbrAttr,
      as_bytes("InetDiagMsg", SampleBases[2]) \o CongAttr("cubic") \o InfoAttr \o BbrAttr }

InitOlder ==
    /\ pc = "idle"
    /\ sink = Collector_new("csv")
    /\ \E b \in Formats :
          /\ direct = Collector_new(b)
          /\ down = Collector_new(b)
    /\ log = <<>>
    /\ dlog = <<>>
    /\ nl = NoNetlink
    /\ rd = NoReader
    /\ desc = Atom
    /\ cwriter = NoWriter
    /\ header = NoHeader
    /\ arg = <<>>
    /\ ret = <<>>

OlderOut == pc = "open" /\ \E data \in OlderPayloads : Feed(EvOut(data), "open")

\* main: the reader up to its loop, on the text without the bbr3 columns
OlderOpen ==
    /\ pc = "idle"
    /\ \E t \in {reader_open(reader_new("csv", OlderText(sink.writer)))} :
           /\ rd' = t.rd
           /\ pc' = IF t.ok THEN "reading" ELSE "rpanic"
    /\ UNCHANGED <<descVars, nl, sinkVars, direct, down, dlog>>

NextOlder == ConvStart \/ OlderOut \/ ConvEnd \/ OlderOpen \/ ConvTurn \/ ConvEof

SpecOlder == InitOlder /\ [][NextOlder]_vars

\* the payloads of the attributes of type ty in the bytes of a sample
AttributesOf(data, ty) ==
    SelectSeq(NlattrIter(Drop(data, size_of("InetDiagMsg"))).attrs,
              LAMBDA a : a.nla_type = ty)
OutsOf(events) == SelectSeq(events, LAMBDA e : e.ev = "out")

\* C12: with a header that has no bbr3.* column the reader never aborts; it
\* maps every bbr3 column to no field, so that the row it reads next has "_"
\* in those columns; every sample it forwards has bbr3 absent, carries the
\* BBR information of the row, and its BBR attribute has a payload of
\* size_of(BbrInfo) bytes, without a BBR3 tail
C12_NoBbr3Tail ==
    /\ pc # "rpanic"
    /\ pc = "reading" =>
          /\ is_some(rd.reorder)
          /\ \A k \in Bbr3Columns : rd.reorder[1][k] = None
          /\ rd.input # <<>> =>
                \A k \in Bbr3Columns :
                    row_fields(rd.reorder,
                               split(strip_suffix(read_line(rd.input, "\n")), " "))[k]
                        = tokens("_")
    /\ pc \in {"reading", "done"} =>
          /\ Len(OutsOf(dlog)) <= Len(OutsOf(log))
          /\ \A i \in DOMAIN OutsOf(dlog) :
                /\ parse(OutsOf(dlog)[i].data).ok
                /\ parse(OutsOf(dlog)[i].data).v.bbr3 = None
                /\ parse(OutsOf(dlog)[i].data).v.bbr = parse(OutsOf(log)[i].data).v.bbr
                /\ \A j \in DOMAIN AttributesOf(OutsOf(dlog)[i].data, INET_DIAG_BBRINFO) :
                      Len(AttributesOf(OutsOf(dlog)[i].data, INET_DIAG_BBRINFO)[j].data)
                          = size_of("BbrInfo")
    /\ pc = "done" => Len(OutsOf(dlog)) = Len(OutsOf(log))

\* the reader has forwarded two samples, the second with a BBR attribute
C12_Witness ==
    /\ pc = "done"
    /\ Len(OutsOf(dlog)) = 2
    /\ Len(AttributesOf(OutsOf(dlog)[2].data, INET_DIAG_BBRINFO)) = 1
    /\ Len(AttributesOf(OutsOf(dlog)[1].data, INET_DIAG_BBRINFO)) = 0

(***************************************************************************)
(* Specification SpecPermuted: read_csv on the text a tabular sink wrote   *)
(* with its columns in another order, in the header line and in every row, *)
(* and with some columns left out; beside it read_csv on the text in the   *)
(* order of CSV_HEADER with `_` in the fields of the columns left out.     *)
(* The rows are taken with one field per column: the empty field the sink  *)
(* writes for Bbr3Info.unused1, which has no column, is not part of them.  *)
(* arg holds the second reader, ret the calls it makes.                    *)
(***************************************************************************)
\* the fields of a line that belong to a column
columns_of(line) == SelectSeq(split(strip_suffix(line), " "), LAMBDA f : f # <<>>)
Columns == 1..(ExtraColumns + 2)
Identity == [k \in Columns |-> k]
Reversed == [k \in Columns |-> ExtraColumns + 3 - k]
Rotated == [k \in Columns |-> IF k = ExtraColumns + 2 THEN 1 ELSE k + 1]
Exchanged == [k \in Columns |-> IF k = 17 THEN 18 ELSE IF k = 18 THEN 17 ELSE k]
Orders == {Identity, Reversed, Rotated, Exchanged}
\* no column, the column cong, the columns of bbr3
LeftOut == {{}, {17}, Bbr3Columns}

\* the fields of the columns kept, in the order p
permuted(fields, p, absent) ==
    LET keep == SelectSeq(p, LAMBDA c : c \notin absent)
    IN  [k \in 1..Len(keep) |-> fields[keep[k]]] \o <<>>
\* trail: the header line ends in " " as the sink's does
PermutedText(text, p, absent, trail) ==
    LET lines == read_lines(text)
    IN  Flatten([i \in 1..Len(lines) |->
                    join(permuted(columns_of(lines[i]), p, absent), " ")
                        \o (IF i = 1 /\ trail THEN tokens(" ") ELSE <<>>)
                        \o tokens("\n")])
blanked(fields, absent) ==
    [k \in 1..Len(fields) |-> IF k \in absent THEN tokens("_") ELSE fields[k]]
BlankedText(text, absent) ==
    LET lines == read_lines(text)
    IN  Flatten([i \in 1..Len(lines) |->
                    IF i = 1 THEN lines[i]
                    ELSE join(blanked(columns_of(lines[i]), absent), " ")
                             \o tokens("\n")])

InitPermuted ==
    /\ pc = "idle"
    /\ sink = Collector_new("csv")
    /\ direct = Collector_new("binary")
    /\ down = Collector_new("binary")
    /\ log = <<>>
    /\ dlog = <<>>
    /\ nl = NoNetlink
    /\ rd = NoReader
    /\ desc = Atom
    /\ cwriter = NoWriter
    /\ header = NoHeader
    /\ arg = [rd |-> NoReader, ok |-> TRUE, order |-> <<>>, absent |-> {}]
    /\ ret = <<>>

\* main: the two readers up to their loops
PermutedOpen ==
    /\ pc = "idle"
    /\ \E p \in Orders, absent \in LeftOut, trail \in BOOLEAN :
       \E t \in {reader_open(reader_new("csv", PermutedText(sink.writer, p, absent, trail)))},
          c \in {reader_open(reader_new("csv", BlankedText(sink.writer, absent)))} :
           /\ rd' = t.rd
           /\ arg' = [rd |-> c.rd, ok |-> c.ok, order |-> p, absent |-> absent]
           /\ pc' = IF t.ok THEN "reading" ELSE "rpanic"
    /\ UNCHANGED <<desc, cwriter, header, ret, nl, sinkVars, direct, down, dlog>>

\* one turn of the loop of each reader
PermutedTurn ==
    /\ pc = "reading"
    /\ rd.input # <<>>
    /\ \E t \in {reader_turn(rd)},
          c \in {IF arg.rd.input = <<>> THEN Turn(TRUE, arg.rd, <<>>)
                 ELSE reader_turn(arg.rd)} :
       \E r \in {deliver(down, t.calls, 1)} :
           /\ rd' = t.rd
           /\ down' = r.sink
           /\ dlog' = dlog \o SubSeq(t.calls, 1, r.n)
           /\ arg' = [arg EXCEPT !.rd = c.rd, !.ok = c.ok]
           /\ ret' = ret \o c.calls
           /\ pc' = IF t.ok /\ r.ok THEN "reading" ELSE "rpanic"
    /\ UNCHANGED <<desc, cwriter, header, nl, sinkVars, direct>>

NextPermuted ==
    ConvStart \/ ConvOut \/ ConvEnd \/ PermutedOpen \/ PermutedTurn \/ ConvEof

SpecPermuted == InitPermuted /\ [][NextPermuted]_vars

(***************************************************************************)
(* Specification SpecRows: read_csv on the text a tabular sink wrote, as   *)
(* written or with the duration of one row replaced by `_`, as in a file   *)
(* whose rows were edited or filtered.                                     *)
(***************************************************************************)
without_duration(line) ==
    LET fields == split(strip_suffix(line), " ")
    IN  join([k \in 1..Len(fields) |->
                 IF k = Len(fields) THEN tokens("_") ELSE fields[k]], " ")
            \o tokens("\n")

\* the texts with the duration of one row after the header taken out
WithoutDuration(text) ==
    LET lines == read_lines(text)
    IN  {Flatten([i \in 1..Len(lines) |->
                     IF i = row THEN without_duration(lines[i]) ELSE lines[i]]) :
            row \in 2..Len(lines)}

InitRows ==
    /\ pc = "idle"
    /\ sink = Collector_new("csv")
    /\ direct = Collector_new("binary")
    /\ down = Collector_new("binary")
    /\ log = <<>>
    /\ dlog = <<>>
    /\ nl = NoNetlink
    /\ rd = NoReader
    /\ desc = Atom
    /\ cwriter = NoWriter
    /\ header = NoHeader
    /\ arg = <<>>
    /\ ret = <<>>

\* main: the reader up to its loop, on the text as written or edited
RowsOpen ==
    /\ pc = "idle"
    /\ sink.writer # <<>>
    /\ \E input \in {sink.writer} \cup WithoutDuration(sink.writer) :
       \E t \in {reader_open(reader_new("csv", input))} :
           /\ rd' = t.rd
           /\ pc' = IF t.ok THEN "reading" ELSE "rpanic"
    /\ UNCHANGED <<descVars, nl, sinkVars, direct, down, dlog>>

NextRows == ConvStart \/ ConvOut \/ ConvEnd \/ RowsOpen \/ ConvTurn \/ ConvEof

SpecRows == InitRows /\ [][NextRows]_vars

(***************************************************************************)
(* Specification SpecInfo: tcpdiag --convert from binary to JSON on sweeps *)
(* of samples whose INET_DIAG_INFO attribute has a payload of zeros of     *)
(* several lengths, shorter than, as long as and longer than TcpInfo.      *)
(***************************************************************************)
InfoLens == {104, size_of("TcpInfo"), size_of("TcpInfo") + 8}
InfoBase ==
    [SampleBase(AF_INET6, ZeroBytes(16), ZeroBytes(16)) EXCEPT
        !.id.sport = U16BE_new(443), !.id.dport = U16BE_new(54321)]
InfoPayload(n) ==
    as_bytes("InetDiagMsg", InfoBase) \o CongAttr("cubic")
        \o KernelAttr(INET_DIAG_INFO, ZeroBytes(n))

InitInfo ==
    /\ pc = "idle"
    /\ sink = Collector_new("binary")
    /\ direct = Collector_new("binary")
    /\ down = Collector_new("json")
    /\ log = <<>>
    /\ dlog = <<>>
    /\ nl = NoNetlink
    /\ rd = NoReader
    /\ desc = Atom
    /\ cwriter = NoWriter
    /\ header = NoHeader
    /\ arg = <<>>
    /\ ret = <<>>

InfoOut == pc = "open" /\ \E n \in InfoLens : Feed(EvOut(InfoPayload(n)), "open")

NextInfo == ConvStart \/ InfoOut \/ ConvEnd \/ ConvOpen \/ ConvTurn \/ ConvEof

SpecInfo == InitInfo /\ [][NextInfo]_vars

\* the objects of the samples in what the JSON sink wrote
SampleObjects(writer) == SelectSeq(writer, LAMBDA item : item.k = "obj")

\* C13 as stated: a sample whose INET_DIAG_INFO payload is 104 bytes long is
\* accepted by the parser, so the conversion of a binary sweep to JSON does
\* not abort and the object of every sample has a member tcp_info.
C13_ShortInfoAccepted ==
    /\ pc # "rpanic"
    /\ pc = "done" =>
          /\ Len(SampleObjects(down.writer)) = Len(OutsOf(log))
          /\ \A i \in DOMAIN SampleObjects(down.writer) :
                has_key(SampleObjects(down.writer)[i], "tcp_info")

(***************************************************************************)
(* Specification SpecVec: InetDiagMsgExtraOwned::to_vec on owned records   *)
(* with every combination of cong, tcp_info, bbr and bbr3 present or       *)
(* absent, the name of cong of every length up to MaxName.                 *)
(***************************************************************************)
MaxName == 6        \* most bytes of the name of the congestion control

OwnedRecords ==
    [base : {SampleBases[k] : k \in DOMAIN SampleBases},
     cong : {None} \cup {Some([i \in 1..n |-> 96 + i]) : n \in 0..MaxName},
     tcp_info : {None, Some(Filled("TcpInfo", 3))},
     bbr : {None, Some(Filled("BbrInfo", 5))},
     bbr3 : {None, Some([Filled("Bbr3Info", 11) EXCEPT !.unused1 = 0])}]

InitVec ==
    /\ pc = "owned"
    /\ arg \in OwnedRecords
    /\ ret = <<>>
    /\ desc = Atom
    /\ cwriter = NoWriter
    /\ header = NoHeader
    /\ sink = NoSink
    /\ log = <<>>
    /\ direct = NoSink
    /\ rd = NoReader
    /\ down = NoSink
    /\ dlog = <<>>
    /\ nl = NoNetlink

\* x.to_vec()
ToVec ==
    /\ pc = "owned"
    /\ to_vec_ok(arg)
    /\ ret' = to_vec(arg)
    /\ pc' = "vec"
    /\ UNCHANGED <<desc, cwriter, header, arg, sinkVars, convVars, nl>>

NextVec == ToVec

SpecVec == InitVec /\ [][NextVec]_vars

(***************************************************************************)
(* Specification SpecParse: InetDiagMsgExtra::parse on a message with at   *)
(* most MaxAttrs attributes, among them BBR attributes of every length     *)
(* class, and on the bytes to_vec made of an owned record.                 *)
(***************************************************************************)
MaxAttrs == 2
ParseAttrs ==
    { BbrAttr, Bbr3Attr,
      KernelAttr(INET_DIAG_BBRINFO, ZeroBytes(8)),
      KernelAttr(INET_DIAG_BBRINFO,
                 as_bytes("BbrInfo", Filled("BbrInfo", 7)) \o ZeroBytes(16)),
      InfoAttr, CongAttr("cubic") }
ParsePayloads ==
    {as_bytes("InetDiagMsg", SampleBases[1]) \o Flatten(l) :
        l \in UNION {[1..n -> ParseAttrs] : n \in 0..MaxAttrs}}

InitParse ==
    /\ \/ pc = "bytes" /\ arg \in ParsePayloads
       \/ pc = "owned" /\ arg \in OwnedRecords
    /\ ret = <<>>
    /\ desc = Atom
    /\ cwriter = NoWriter
    /\ header = NoHeader
    /\ sink = NoSink
    /\ log = <<>>
    /\ direct = NoSink
    /\ rd = NoReader
    /\ down = NoSink
    /\ dlog = <<>>
    /\ nl = NoNetlink

\* InetDiagMsgExtra::parse(data), on the message or on the bytes of to_vec
Parse ==
    /\ pc \in {"bytes", "vec"}
    /\ ret' = parse(IF pc = "bytes" THEN arg ELSE ret)
    /\ pc' = IF pc = "bytes" THEN "parsed" ELSE "reparsed"
    /\ UNCHANGED <<desc, cwriter, header, arg, sinkVars, convVars, nl>>

NextParse == ToVec \/ Parse

SpecParse == InitParse /\ [][NextParse]_vars

(***************************************************************************)
(* Specification SpecWalk: the calls of NlattrIter::next on a byte string  *)
(* of two chunks, each a header with nla_len in 0..MaxNlaLen followed by   *)
(* a body whose length is chosen independently of nla_len, or on a cut     *)
(* header.  arg holds the bytes and what is left of them, ret the          *)
(* attributes yielded so far.                                              *)
(***************************************************************************)
MaxNlaLen == 9
BodyBytes == <<17, 18, 19, 20, 21, 22, 23, 24>>
WalkChunks ==
    {nlattr_as_bytes(len, 1) \o Take(BodyBytes, n) :
        len \in 0..MaxNlaLen, n \in {0, 1, 4, 5, 8}}
WalkBytes ==
    {c \o d : c \in WalkChunks, d \in WalkChunks \cup {<<>>}}
        \cup {Take(<<8, 0, 1>>, n) : n \in 0..3}

InitWalk ==
    /\ pc = "walk"
    /\ \E b \in WalkBytes : arg = [bytes |-> b, rest |-> b]
    /\ ret = <<>>
    /\ desc = Atom
    /\ cwriter = NoWriter
    /\ header = NoHeader
    /\ sink = NoSink
    /\ log = <<>>
    /\ direct = NoSink
    /\ rd = NoReader
    /\ down = NoSink
    /\ dlog = <<>>
    /\ nl = NoNetlink

\* one call of NlattrIter::next
WalkNext ==
    /\ pc = "walk"
    /\ \E r \in {NlattrIter_next(arg.rest)} :
          /\ pc' = IF r.kind = "some" THEN "walk" ELSE r.kind
          /\ arg' = [arg EXCEPT !.rest = r.rest]
          /\ ret' = IF r.kind = "some" THEN Append(ret, r.item) ELSE ret
    /\ UNCHANGED <<desc, cwriter, header, sinkVars, convVars, nl>>

NextWalk == WalkNext

SpecWalk == InitWalk /\ [][NextWalk]_vars

\* the attributes to_vec appends for a record, each with its type and payload
AppendedBy(x) ==
    (IF is_some(x.cong) THEN << <<INET_DIAG_CONG, x.cong[1] \o <<0>> >> >> ELSE <<>>)
    \o (IF is_some(x.tcp_info)
        THEN << <<INET_DIAG_INFO, as_bytes("TcpInfo", x.tcp_info[1])>> >> ELSE <<>>)
    \o (IF is_some(x.bbr)
        THEN << <<INET_DIAG_BBRINFO,
                  as_bytes("BbrInfo", x.bbr[1])
                      \o (IF is_some(x.bbr3) THEN as_bytes("Bbr3Info", x.bbr3[1]) ELSE <<>>)>> >>
        ELSE <<>>)
\* an attribute on align4(4 + payload_len) bytes: the header with the length
\* 4 + payload_len, the payload, zeros
Aligned(ty, payload) ==
    LE(2, 4 + Len(payload)) \o LE(2, ty) \o payload
        \o [i \in 1..(align4(4 + Len(payload)) - (4 + Len(payload))) |-> 0]

\* C14: the output of to_vec is the base followed by the attributes of the
\* record, each on align4(4 + payload_len) bytes with 4 + payload_len in the
\* length field of its header and zeros as padding
C14_AttributesAligned ==
    pc = "vec" =>
        ret = as_bytes("InetDiagMsg", arg.base)
                \o Flatten([i \in DOMAIN AppendedBy(arg) |->
                               Aligned(AppendedBy(arg)[i][1], AppendedBy(arg)[i][2])])

\* a name of five bytes (two bytes of padding) and a BBR attribute with the
\* BBR3 tail
C14_Witness ==
    /\ pc = "vec"
    /\ is_some(arg.cong) /\ Len(arg.cong[1]) = 5
    /\ is_some(arg.tcp_info) /\ is_some(arg.bbr) /\ is_some(arg.bbr3)
    /\ Len(ret) = size_of("InetDiagMsg") + 12 + (4 + size_of("TcpInfo"))
                     + (4 + size_of("BbrInfo") + size_of("Bbr3Info"))

(***************************************************************************)
(* Properties of the query driver (SpecNetlink).                           *)
(***************************************************************************)
InSweep == pc \in {"send", "recv", "end", "panic"}

\* C1: the calls read_netlink makes on the sink are, sweep after sweep, one
\* start, then out calls, then one end: an out or an end follows a start or
\* an out, a start is the first call or follows an end; every turn of the
\* loop has made one start, and one end unless the turn is still under way
C1_StartOutsEnd ==
    /\ \A i \in DOMAIN log :
          IF log[i].ev = "start" THEN i = 1 \/ log[i - 1].ev = "end"
          ELSE i > 1 /\ log[i - 1].ev \in {"start", "out"}
    /\ Len(PositionsOf(log, "start")) = nl.sweeps
    /\ Len(PositionsOf(log, "end")) = IF InSweep THEN nl.sweeps - 1 ELSE nl.sweeps

\* two sweeps are complete, with samples of both families in the second
C1_Witness ==
    /\ pc = "return" /\ nl.sweeps = 2
    /\ \E i \in 3..(Len(log) - 3) :
          /\ log[i].ev = "start" /\ log[i - 1].ev = "end"
          /\ log[i + 1].ev = "out" /\ log[i + 2].ev = "out"
          /\ parse(log[i + 1].data).v.base.family = AF_INET
          /\ parse(log[i + 2].data).v.base.family = AF_INET6

\* the sweeps a run with these arguments makes before it returns
SweepsOf(args) == IF is_some(args.count) THEN args.count[1] ELSE 1
Bounded(args) == is_some(args.count) \/ ~is_some(args.period)

C15_State ==
    /\ pc = "return" => Bounded(nl.args) /\ nl.sweeps = SweepsOf(nl.args)
    /\ Bounded(nl.args) => nl.sweeps <= SweepsOf(nl.args)
    /\ pc = "sleep" =>
          /\ is_some(nl.args.period)
          /\ is_some(nl.args.count) => nl.sweeps < nl.args.count[1]

\* C15: with a count N and a period the loop makes exactly N sweeps and
\* then returns, without a period it makes exactly one sweep and then
\* returns, and sleep_until is not entered after the end of the last sweep.
C15_CountedSweeps ==
    /\ []C15_State
    /\ Bounded(nl.args) ~> pc = "return"

C15_Witness ==
    /\ pc = "return"
    /\ nl.args.count = Some(2)
    /\ nl.sweeps = 2
    /\ nl.count = 0

(***************************************************************************)
(* Properties of the pacing (SpecPace).                                    *)
(***************************************************************************)
ToNanos(ts) == ts.tv_sec * 1000000000 + ts.tv_nsec

DeadlineOnGrid ==
    /\ nl.period_start.tv_nsec \in 0..999999999
    /\ pc = "sleep" =>
          ToNanos(nl.period_start) =
              ToNanos(MonotonicStart) + nl.sweeps * nl.args.period[1]

SleepToDeadline ==
    (pc = "sleep" /\ pc' = "loop") =>
        nl'.clock = IF Timespec_lt(nl.clock, nl.period_start)
                    THEN nl.period_start ELSE nl.clock

\* C16: the deadline of the sleep after the i-th sweep is D0 + i * P, D0
\* the monotonic time read before the first sweep, whatever the sweeps
\* took; the sleep ends at the deadline, and at once when the deadline is
\* already past.
C16_DeadlinesOnGrid == []DeadlineOnGrid /\ [][SleepToDeadline]_vars

\* the first sweep overran the period, and the deadline after the second
\* sweep, past as well, is D0 + 2 * P, a second later than D0's
C16_Witness ==
    /\ pc = "loop" /\ nl.sweeps = 2
    /\ log[PositionsOf(log, "end")[1]].duration > nl.args.period[1]
    /\ Timespec_lt(nl.period_start, nl.clock)
    /\ nl.period_start.tv_sec = MonotonicStart.tv_sec + 1

(***************************************************************************)
(* Properties of sleep_until (SpecSleep).  nl.ret is the result of the     *)
(* last sleep call, nl.calls the failed calls of the running sleep_until.  *)
(***************************************************************************)
\* C17: sleep_until returns only when the deadline is reached; the call is
\* made again, with the same deadline, exactly when it reported EINTR, and
\* the process aborts exactly when it reported another failure.
C17_SleepRetriesEintr ==
    /\ (pc = "loop" /\ nl.sweeps >= 1) => ~Timespec_lt(nl.clock, nl.period_start)
    /\ (pc = "sleep" /\ nl.calls > 0) =>
          /\ nl.ret = EINTR
          /\ ToNanos(nl.period_start) =
                 ToNanos(MonotonicStart) + nl.sweeps * nl.args.period[1]
    /\ pc = "panic" => nl.ret \notin {0, EINTR}

(***************************************************************************)
(* Properties of a family's pass (SpecLoopFair).     The messages of a     *)
(* receive buffer are read off its bytes: the length in bytes 1 to 4, the  *)
(* type in bytes 5 and 6, the data after the 16 bytes of the header.       *)
(***************************************************************************)
RECURSIVE Messages(_)
Messages(bytes) ==
    IF Len(bytes) < 16 THEN <<>>
    ELSE <<[type |-> bytes[5] + 256 * bytes[6],
            data |-> SubSeq(bytes, 17, bytes[1] + 256 * bytes[2])]>>
         \o Messages(Drop(bytes, bytes[1] + 256 * bytes[2]))

Ends(m) == m.type \in {NLMSG_DONE, NLMSG_ERROR}

\* the messages before the first DONE or ERROR message
RECURSIVE BeforeEnd(_)
BeforeEnd(msgs) ==
    IF msgs = <<>> \/ Ends(Head(msgs)) THEN <<>>
    ELSE <<Head(msgs)>> \o BeforeEnd(Tail(msgs))

RECURSIVE OutCalls(_)
OutCalls(msgs) ==
    IF msgs = <<>> THEN <<>>
    ELSE (IF Head(msgs).type = SOCK_DIAG_BY_FAMILY
          THEN <<EvOut(Head(msgs).data)>> ELSE <<>>) \o OutCalls(Tail(msgs))

PassStep ==
    pc = "recv" =>
        /\ log' = log \o OutCalls(BeforeEnd(Messages(nl'.buf)))
        /\ pc' # "recv" <=> \E i \in DOMAIN Messages(nl'.buf) : Ends(Messages(nl'.buf)[i])

\* C18: of a receive buffer the SOCK_DIAG_BY_FAMILY messages before the
\* first DONE or ERROR message are passed to the sink in their order, and
\* nothing else is; the pass goes on exactly when the buffer held no DONE
\* or ERROR message; and a pass the kernel ends with DONE or ERROR is left.
C18_PassInOrder ==
    /\ [][PassStep]_vars
    /\ pc = "recv" ~> pc # "recv"

\* a pass was ended by a DONE message that a sample followed in the buffer
C18_Witness ==
    /\ pc \in {"send", "end"}
    /\ Len(Messages(nl.buf)) = 2
    /\ Messages(nl.buf)[1].type = NLMSG_DONE
    /\ Messages(nl.buf)[2].type = SOCK_DIAG_BY_FAMILY
    /\ log[Len(log)].ev = "start"

(***************************************************************************)
(* Properties of the detection of the input format (SpecDetect).           *)
(***************************************************************************)
\* 1u16.to_ne_bytes() on the little-endian targets of the model
NativeOne == <<1, 0>>
Swapped(b) == <<b[2], b[1]>>

HasType(peek, bytes) == Len(peek) >= 4 /\ SubSeq(peek, 3, 4) = bytes
LeadsJson(peek) == Len(peek) >= 2 /\ SubSeq(peek, 1, 2) = <<123, 34>>
LeadsCsv(peek) == Len(peek) >= 1 /\ peek[1] \in {35} \cup 97..122

\* C19: the rules of the detection, the first that applies deciding: bytes
\* 3 and 4 the native encoding of 1u16, the binary reader; the swapped
\* encoding, rejected; a leading {", the JSON reader; a leading # or
\* lowercase letter, the tabular reader; no bytes, nothing is read; anything
\* else, rejected.  Every input has one route.
C19_DetectionRules ==
    pc = "routed" =>
        /\ HasType(arg, NativeOne) => ret = "binary"
        /\ HasType(arg, Swapped(NativeOne)) => ret = "foreign"
        /\ ~HasType(arg, NativeOne) /\ ~HasType(arg, Swapped(NativeOne)) =>
              /\ LeadsJson(arg) => ret = "json"
              /\ LeadsCsv(arg) => ret = "csv"
              /\ arg = <<>> => ret = "empty"
              /\ ~LeadsJson(arg) /\ ~LeadsCsv(arg) /\ arg # <<>> => ret = "unrecognized"
        /\ ret \in {"binary", "foreign", "json", "csv", "empty", "unrecognized"}

\* bytes that two rules apply to go to the binary reader only
C19_Witness ==
    /\ pc = "routed"
    /\ arg = <<123, 34, 1, 0>>
    /\ ret = "binary"

(***************************************************************************)
(* Properties of the JSON reader (SpecJson).  log holds the events of the  *)
(* lines that are sweep objects, dlog the events read_json delivered; a    *)
(* line holds its times in whole microseconds and a sample as its members. *)
(***************************************************************************)
AsWritten(e) ==
    IF e.ev = "out" THEN EvOut(to_vec(parse(e.data).v))
    ELSE [e EXCEPT !.time = from_micros(as_micros(@)),
                   !.duration = from_micros(as_micros(@))]
InMicros(events) == [i \in DOMAIN events |-> AsWritten(events[i])]

\* C20: read_json passes over a line that is no sweep object, with no call
\* on the sink and without a panic, and delivers for every other line its
\* start, its outs in the order of the samples and its end, up to the end
\* of the input.
C20_OtherLinesSkipped ==
    /\ pc # "rpanic"
    /\ pc = "reading" => dlog = SubSeq(InMicros(log), 1, Len(dlog))
    /\ pc = "done" => dlog = InMicros(log)

(***************************************************************************)
(* Properties of the tabular reader (SpecRows).  dlog holds the events     *)
(* read_csv delivered.                                                     *)
(***************************************************************************)
\* C21: when a row's time differs from the time of the rows before it and
\* the sweep of those rows has had its start and no end, read_csv delivers
\* the end of that sweep before the start for the new time: a start that
\* is not the first event follows an end.
C21_EndBeforeNewStart ==
    \A i \in 2..Len(dlog) : dlog[i].ev = "start" => dlog[i - 1].ev = "end"

(***************************************************************************)
(* Properties of to_vec and parse (SpecVec).  arg is the owned record, ret *)
(* the bytes to_vec made of it.                                            *)
(***************************************************************************)
\* C22: for an owned record with bbr3 only beside bbr (the names of the
\* model hold no NUL), parse of the bytes of to_vec gives the same base,
\* name, TCP info, BBR info and BBR3 info, and what was absent is absent.
C22_ParseInvertsToVec ==
    (pc = "vec" /\ (is_some(arg.bbr3) => is_some(arg.bbr))) =>
        /\ parse(ret).ok
        /\ parse(ret).v.base = arg.base
        /\ parse(ret).v.cong = arg.cong
        /\ parse(ret).v.tcp_info = arg.tcp_info
        /\ parse(ret).v.bbr = arg.bbr
        /\ parse(ret).v.bbr3 = arg.bbr3

\* a record with every attachment, its name padded by two bytes
C22_Witness ==
    /\ pc = "vec"
    /\ is_some(arg.cong) /\ Len(arg.cong[1]) = 5
    /\ is_some(arg.tcp_info) /\ is_some(arg.bbr) /\ is_some(arg.bbr3)
    /\ parse(ret).ok
    /\ parse(ret).v.cong = arg.cong
    /\ parse(ret).v.bbr3 = arg.bbr3

(***************************************************************************)
(* Properties of the attachments (SpecParse).                              *)
(***************************************************************************)
Bbr3OnlyWithBbr(extras) == is_some(extras.bbr3) => is_some(extras.bbr)
OnlyShortBbr(data) ==
    \A i \in DOMAIN AttributesOf(data, INET_DIAG_BBRINFO) :
        Len(AttributesOf(data, INET_DIAG_BBRINFO)[i].data) < size_of("BbrInfo")

\* C23: a record parse returns has bbr3 only beside bbr, whatever the
\* attributes were; BBR attributes too short for BbrInfo attach neither; for
\* an owned record without bbr, with or without bbr3, to_vec writes no BBR
\* attribute, and the record parsed from its bytes has neither.
C23_Bbr3ImpliesBbr ==
    /\ (pc \in {"parsed", "reparsed"} /\ ret.ok) => Bbr3OnlyWithBbr(ret.v)
    /\ (pc = "parsed" /\ ret.ok /\ OnlyShortBbr(arg)) =>
          ret.v.bbr = None /\ ret.v.bbr3 = None
    /\ (pc = "vec" /\ ~is_some(arg.bbr)) =>
          AttributesOf(ret, INET_DIAG_BBRINFO) = <<>>
    /\ (pc = "reparsed" /\ ~is_some(arg.bbr)) =>
          ret.ok /\ ret.v.bbr = None /\ ret.v.bbr3 = None

\* an owned record with bbr3 and without bbr was written and parsed again
C23_Witness ==
    /\ pc = "reparsed"
    /\ is_some(arg.bbr3) /\ ~is_some(arg.bbr)
    /\ ret.ok /\ ret.v.bbr3 = None

\* a BBR attribute with BBR3 information was followed by one too short
C23_WitnessShort ==
    /\ pc = "parsed" /\ ret.ok
    /\ Len(AttributesOf(arg, INET_DIAG_BBRINFO)) = 2
    /\ Len(AttributesOf(arg, INET_DIAG_BBRINFO)[2].data) = 8
    /\ is_some(ret.v.bbr3)

(***************************************************************************)
(* Properties of the attribute walk (SpecWalk).                            *)
(***************************************************************************)
nla_len_of(b) == FromLE(Take(b, 2))
Aborting(b) ==
    b # <<>> /\ (Len(b) < 4 \/ nla_len_of(b) < 4 \/ align4(nla_len_of(b)) > Len(b))
WalkStep ==
    /\ pc = "walk"
    /\ pc' = "walk" =>
          /\ ~Aborting(arg.rest) /\ arg.rest # <<>>
          /\ align4(nla_len_of(arg.rest)) >= 4
          /\ Len(arg'.rest) = Len(arg.rest) - align4(nla_len_of(arg.rest))
          /\ arg'.rest = Drop(arg.rest, align4(nla_len_of(arg.rest)))
          /\ Len(ret') = Len(ret) + 1
          /\ ret'[Len(ret')].data = SubSeq(arg.rest, 5, nla_len_of(arg.rest))
          /\ Len(ret'[Len(ret')].data) = nla_len_of(arg.rest) - 4
    /\ pc' = "panic" <=> Aborting(arg.rest)
    /\ pc' = "none" <=> arg.rest = <<>>
    /\ pc' # "walk" => ret' = ret /\ arg' = arg
WalkState ==
    /\ pc \in {"walk", "none", "panic"}
    /\ Len(ret) <= Len(arg.bytes) \div 4
    /\ Len(arg.rest) <= Len(arg.bytes) - 4 * Len(ret)
    /\ pc = "none" => arg.rest = <<>> /\ NlattrIter(arg.bytes) = [ok |-> TRUE, attrs |-> ret]
    /\ pc = "panic" => ~NlattrIter(arg.bytes).ok

\* C24: every call of next that yields an attribute advances by
\* align4(nla_len) >= 4 bytes and yields the nla_len - 4 bytes after the
\* header, without the padding; a call panics exactly when fewer than four
\* bytes are left, nla_len is below 4 or the aligned length passes the end;
\* it returns None exactly when nothing is left.  So at most a quarter of the
\* length in attributes is yielded, and the walk ends consumed or aborted.
C24_WalkAdvances == [][WalkStep]_vars /\ []WalkState

\* two attributes were yielded, the first with padding, and the bytes are used up
C24_Witness ==
    /\ pc = "none" /\ Len(ret) = 2
    /\ Len(ret[1].data) = 5 /\ Len(arg.bytes) = 20

(***************************************************************************)
(* Properties of samples parse cannot read (SpecMalformed).                *)
(***************************************************************************)
Delivered ==
    /\ Len(log') = Len(log) + 1
    /\ log'[Len(log')].ev = "out"
    /\ ~parse(log'[Len(log')].data).ok
\* nothing written for the sample; the tabular sink may have ended the row
\* of the sample before
NoRecord ==
    \/ sink'.writer = sink.writer
    \/ sink.kind = "csv" /\ sink'.writer = sink.writer \o tokens(sink.trailer)

\* C25: a sample with an attribute length the walk rejects, or with a
\* congestion payload that is not UTF-8 or lacks the final NUL, delivered to
\* a sink of any format, aborts the process, and no record of the sample is
\* written.
C25_MalformedAborts == [][Delivered => (pc' = "panic" /\ NoRecord)]_vars

(***************************************************************************)
(* Properties of the column order (SpecPermuted).                          *)
(***************************************************************************)
\* C26: read_csv on text whose header names the columns of CSV_HEADER in
\* another order, the rows in that order, makes the calls (start with the
\* same time, out with the same bytes, end with the same duration) that it
\* makes on the text in the order of CSV_HEADER, and panics when that one
\* does; a column the header does not name has no position in reorder and
\* is read as `_` in every row.
C26_ColumnOrderFree ==
    pc \in {"reading", "done", "rpanic"} =>
        /\ dlog = ret
        /\ arg.ok = (pc # "rpanic")
        /\ pc = "done" => arg.rd.input = <<>>
        /\ is_some(rd.reorder) =>
              \A c \in Columns : is_some(rd.reorder[1][c]) = (c \notin arg.absent)
        /\ ~is_some(rd.reorder) => arg.order = Identity /\ arg.absent = {}

\* a text of two rows in reversed order was read to its end
C26_Witness ==
    /\ pc = "done"
    /\ arg.order = Reversed /\ arg.absent = {}
    /\ is_some(rd.reorder)
    /\ Len(OutsOf(dlog)) = 2
    /\ dlog = ret
    /\ Len(AttributesOf(OutsOf(dlog)[2].data, INET_DIAG_BBRINFO)) = 1
    /\ Len(AttributesOf(OutsOf(dlog)[2].data, INET_DIAG_BBRINFO)[1].data)
           = size_of("BbrInfo") + size_of("Bbr3Info")

(***************************************************************************)
(* Properties of the requests of a sweep (SpecNetlink).  nl.requests holds *)
(* the families of the requests sent since the sweep started.              *)
(***************************************************************************)
FamilyOf(e) == e.data[1]
SameSweep(i, j) == \A k \in (i + 1)..j : log[k].ev # "start"
RequestsSoFar ==
    IF nl.args.inet4 THEN {<<>>, <<AF_INET>>}
    ELSE IF nl.args.inet6 THEN {<<>>, <<AF_INET6>>}
    ELSE {<<>>, <<AF_INET>>, <<AF_INET, AF_INET6>>}
RequestsState ==
    /\ nl.requests \in RequestsSoFar
    /\ pc \in {"end", "sleep", "return"} =>
          \A short \in RequestsSoFar : Len(short) <= Len(nl.requests)
    /\ \A i \in DOMAIN log : \A j \in DOMAIN log :
          (i < j /\ log[i].ev = "out" /\ log[j].ev = "out" /\ SameSweep(i, j)
               /\ FamilyOf(log[i]) = AF_INET6) => FamilyOf(log[j]) # AF_INET
RequestsStep ==
    /\ Len(nl'.requests) > Len(nl.requests) =>
          /\ pc = "send" /\ pc' = "recv"
          /\ Len(nl'.requests) = Len(nl.requests) + 1
          /\ log' = log
          /\ nl.requests # <<>> =>
                \E i \in DOMAIN Messages(nl.buf) : Ends(Messages(nl.buf)[i])
    /\ (pc = "send" /\ pc' = "recv") => Len(nl'.requests) > Len(nl.requests)
    /\ (pc = "recv" /\ Len(log') > Len(log)) =>
          \A i \in (Len(log) + 1)..Len(log') :
              FamilyOf(log'[i]) = nl.requests[Len(nl.requests)]

\* C27: in every sweep one request is sent per family, IPv4 alone with -4,
\* IPv6 alone with -6, IPv4 and then IPv6 otherwise; the second request is
\* sent after a DONE or ERROR message has ended the first family's pass; the
\* samples passed on during a pass are of the family requested last, so
\* within a sweep no sample of IPv4 follows one of IPv6.
C27_OneRequestPerFamily == []RequestsState /\ [][RequestsStep]_vars

\* the second sweep has passed on a sample of each family
C27_Witness ==
    /\ pc = "end" /\ nl.sweeps = 2
    /\ nl.requests = <<AF_INET, AF_INET6>>
    /\ Len(log) >= 2
    /\ log[Len(log)].ev = "out" /\ FamilyOf(log[Len(log)]) = AF_INET6
    /\ log[Len(log) - 1].ev = "out" /\ FamilyOf(log[Len(log) - 1]) = AF_INET

(***************************************************************************)
(* Properties of the binary reader (SpecBinary).  A record holds its time  *)
(* or duration in whole microseconds.                                      *)
(***************************************************************************)
Truncated(e) ==
    [e EXCEPT !.time = from_micros(as_micros(@)),
              !.duration = from_micros(as_micros(@))]
TruncatedAll(events) == [i \in DOMAIN events |-> Truncated(events[i])]

\* C28: read_binary on the bytes a binary sink wrote makes the calls the
\* sink received, in their order, with the times and durations in whole
\* microseconds and the payloads byte for byte, so a second binary sink
\* writes the same bytes; it ends without a panic unless the input holds a
\* record of a type other than 0, 1 and 2, at which it panics, having made
\* the calls of the records before it.
C28_ReaderInvertsSink ==
    pc \in {"reading", "done", "rpanic"} =>
        /\ dlog = SubSeq(TruncatedAll(log), 1, Len(dlog))
        /\ down.writer = SubSeq(sink.writer, 1, Len(down.writer))
        /\ pc = "done" =>
              arg = "none" /\ dlog = TruncatedAll(log) /\ down.writer = sink.writer
        /\ pc = "rpanic" =>
              /\ arg # "none"
              /\ arg = "front" => dlog = <<>>
              /\ arg = "back" => dlog = TruncatedAll(log)

\* four records, a payload of three bytes among them, were read back
C28_Witness ==
    /\ pc = "done" /\ Len(dlog) = 4
    /\ log[1] = EvStart(2999) /\ dlog[1] = EvStart(2000)
    /\ log[2] = EvOut(<<1, 2, 3>>) /\ dlog[2] = log[2]
    /\ log[4] = EvEnd(1500) /\ dlog[4] = EvEnd(1000)
    /\ down.writer = sink.writer

\* the reader panicked at a record of type 3 after the records of the sink
C28_WitnessForeign ==
    pc = "rpanic" /\ arg = "back" /\ Len(dlog) = 3

(***************************************************************************)
(* Properties of the wire wrappers (SpecWire).                             *)
(***************************************************************************)
IsByte(b) == b \in 0..255
StoredAsClaimed ==
    CASE arg.wrapper = "U16BE" ->
            /\ Len(ret.stored) = 2
            /\ IsByte(ret.stored[1]) /\ IsByte(ret.stored[2])
            /\ 256 * ret.stored[1] + ret.stored[2] = arg.val
      [] arg.wrapper = "NlU64" -> ret.stored = <<arg.val, 0>>
      [] arg.wrapper = "NlU64 wide" ->
            ret.stored = <<(<<arg.val[1], arg.val[2]>>), (<<arg.val[3], arg.val[4]>>)>>
      [] arg.wrapper = "U64NE" ->
            Len(ret.stored) = 8 /\ FromLE(Take(ret.stored, 4)) = arg.val
                /\ Drop(ret.stored, 4) = <<0, 0, 0, 0>>
      [] arg.wrapper = "U64NE wide" ->
            /\ Len(ret.stored) = 8
            /\ \A i \in 1..8 : IsByte(ret.stored[i])
            /\ \A i \in 1..4 : ret.stored[2 * i - 1] + 256 * ret.stored[2 * i] = arg.val[i]

\* C29: U16BE::new(v) stores the high byte of v and then the low byte,
\* NlU64::new(v) the low 32-bit word of v and then the high word, U64NE the
\* eight bytes of v in the order of the target; get of what new stored is v,
\* for each of the three.
C29_GetInvertsNew ==
    /\ pc \in {"stored", "got"} => StoredAsClaimed
    /\ pc = "got" => ret.got = <<arg.val>>

\* a value with bits in both words went through NlU64, one with two
\* different bytes through U16BE
C29_Witness ==
    /\ pc = "got"
    /\ arg.wrapper = "NlU64 wide" /\ arg.val = <<1, 32768, U16_MAX, 256>>
    /\ ret.stored[2] = <<U16_MAX, 256>>
    /\ ret.got = <<arg.val>>
C29_WitnessU16 ==
    /\ pc = "got" /\ arg.wrapper = "U16BE" /\ arg.val = 258
    /\ ret.stored = <<1, 2>> /\ ret.got = <<258>>

(***************************************************************************)
(* Properties of Timespec += Duration (SpecClock).  The instant expected   *)
(* is reckoned apart from add_nanos: the whole seconds, the microseconds   *)
(* and the nanoseconds below a microsecond are summed each on their own    *)
(* and carried at the end.                                                 *)
(***************************************************************************)
RECURSIVE SumOf(_, _)
SumOf(ds, part) == IF ds = <<>> THEN 0 ELSE part[Head(ds)] + SumOf(Tail(ds), part)
Seconds == [d \in ClockDurations |-> d \div 1000000000]
Micros == [d \in ClockDurations |-> (d % 1000000000) \div 1000]
Nanos == [d \in ClockDurations |-> d % 1000]
Carried(sec, micros, nanos) ==
    Timespec(sec + (micros + (nanos \div 1000)) \div 1000000,
             ((micros + (nanos \div 1000)) % 1000000) * 1000 + (nanos % 1000))
Expected(start, ds) ==
    Carried(start.tv_sec + SumOf(ds, Seconds),
            (start.tv_nsec \div 1000) + SumOf(ds, Micros),
            (start.tv_nsec % 1000) + SumOf(ds, Nanos))
ClockState ==
    pc = "clock" =>
        /\ ret.tv_nsec >= 0 /\ ret.tv_nsec < 1000000000
        /\ ret = Expected(arg, dlog)
\* the sum in tv_nsec fits an i32, and the seconds grow by the seconds of
\* the duration and a carry of 0 or 1
ClockStep ==
    pc = "clock" =>
        /\ ret.tv_nsec + subsec_nanos(dlog'[Len(dlog')]) <= 2147483647
        /\ ret'.tv_sec - ret.tv_sec - as_secs(dlog'[Len(dlog')]) \in {0, 1}

\* C30: after any additions of durations to a normalised Timespec tv_nsec
\* is in [0, 10^9) and the value is the start plus the sum of the durations;
\* every addition carries 0 or 1 into the seconds, and the sum it forms in
\* tv_nsec stays within an i32.
C30_AddKeepsNormalised == []ClockState /\ [][ClockStep]_vars

\* three additions, the first reaching a whole second exactly
C30_Witness ==
    /\ pc = "clock"
    /\ arg = Timespec(5, 999999999)
    /\ dlog = <<1, 1999999999, 500000000>>
    /\ ret = Timespec(8, 499999999)
====
